---- MODULE Spec2Model ----
(***************************************************************************)
(* Model of the static-db synchronisation core: DefaultSyncService         *)
(* (loadInitial, sync, withRetry) running against a RemoteDatabase with    *)
(* the behaviour of the test suite's MockRemoteDatabase and a              *)
(* LocalDatabase with the behaviour of MemoryLocalDatabase.                *)
(*                                                                         *)
(* Every await of a port call is one step of the orchestrator, so that an  *)
(* external writer can advance the remote between two port calls.          *)
(*                                                                         *)
(* Spec is the orchestrator; SpecRetry is sync alone under a wider range   *)
(* of retry options; SpecGitHub is GitHubRemoteDatabase.pushSnapshot with  *)
(* another writer on the branch; SpecLocal is MemoryLocalDatabase and      *)
(* NodeFileLocalDatabase called directly; SpecConcurrent is two sync calls *)
(* overlapping on one service; SpecTermination is sync with ports that     *)
(* always answer.                                                          *)
(***************************************************************************)
EXTENDS Integers, Sequences, FiniteSets, TLC

\* ------------------------------------------------------------------ bounds
\* Number of commits the remote can ever hold (initial one included).
MaxCommits == 3
\* Number of orchestrator calls (loadInitial / sync) in one behaviour.
MaxCalls == 2

\* Number of commit objects the GitHub repository can ever hold.
MaxGhCommits == 4
\* Number of GitHubRemoteDatabase.pushSnapshot calls in one behaviour.
MaxGhPushes == 2
\* Number of calls made on the local ports in one behaviour.
MaxPortCalls == 3

\* ------------------------------------------------------- program constants
DefaultMaxRetries == 3
DefaultRetryDelay == 1000

\* ----------------------------------------------------------------- values
\* An omitted constructor option (undefined).
Omitted == 0 - 1

\* Values of the maxRetries / retryDelay constructor options that are tried.
MaxRetriesOptions == {Omitted, 1, 2}
RetryDelayOptions == {Omitted, 10}

\* The options tried where only the retry policy is exercised: maxRetries
\* up to 4 (three waits, where linear and exponential backoff part) and
\* retryDelay down to 0.
WideMaxRetriesOptions == {Omitted, 1, 2, 3, 4}
WideRetryDelayOptions == {Omitted, 0, 1, 7}

\* Schemas and records of a snapshot, as ordered collections of names.
Contents ==
    { [schemas |-> <<>>,     records |-> <<>>],
      [schemas |-> <<"s1">>, records |-> <<>>],
      [schemas |-> <<"s1">>, records |-> <<"r1">>] }

\* RemoteSnapshot.meta: "absent" (no meta), "t0" (fetchedAt an earlier
\* time), "now" (fetchedAt stamped by the running sync call).
CallerMetas == {"absent"}

\* What another writer commits (MockRemoteDatabase.advanceRemote writes one
\* schema and no records).
AdvancedContents == { [schemas |-> <<"s1">>, records |-> <<>>] }

\* RemoteSnapshot
Snapshot(c, content, m) ==
    [commitId |-> c, schemas |-> content.schemas,
     records |-> content.records, meta |-> m]

\* LocalState.snapshot === null
NoSnapshot == [commitId |-> 0, schemas |-> <<>>, records |-> <<>>, meta |-> "null"]

\* Errors a port can throw.
PushErrors == {"OutOfDateError", "NetworkError", "AuthenticationError"}
NoError == "none"

\* SyncResult before the call has returned.
NoResult == [status |-> "none", snapshot |-> NoSnapshot,
             previousCommitId |-> 0, changesPushed |-> Omitted,
             reason |-> "none"]

\* No SyncError thrown.
NoThrow == [class |-> "none", phase |-> "none", code |-> "none", cause |-> "none"]

\* The classes of core/errors (and the built-in Error) with the class each
\* one extends.
Extends ==
    [ StaticDBError            |-> "Error",
      RemoteDatabaseError      |-> "StaticDBError",
      OutOfDateError           |-> "RemoteDatabaseError",
      AuthenticationError      |-> "RemoteDatabaseError",
      NetworkError             |-> "RemoteDatabaseError",
      RemoteConfigurationError |-> "RemoteDatabaseError",
      LocalDatabaseError       |-> "StaticDBError",
      QuotaExceededError       |-> "LocalDatabaseError",
      StorageUnavailableError  |-> "LocalDatabaseError",
      DataCorruptionError      |-> "LocalDatabaseError",
      SyncError                |-> "StaticDBError",
      SyncFailedError          |-> "SyncError",
      ValidationError          |-> "StaticDBError",
      SchemaValidationError    |-> "ValidationError" ]

ErrorClasses == DOMAIN Extends \cup {"Error"}

\* The classes that define isRetryable() themselves, with what it returns.
IsRetryableOverrides ==
    [ StaticDBError            |-> FALSE,
      OutOfDateError           |-> TRUE,
      AuthenticationError      |-> FALSE,
      NetworkError             |-> TRUE,
      RemoteConfigurationError |-> FALSE,
      QuotaExceededError       |-> FALSE,
      StorageUnavailableError  |-> FALSE,
      DataCorruptionError      |-> TRUE,
      SyncFailedError          |-> TRUE,
      ValidationError          |-> FALSE ]

\* error instanceof errorClass, for an error constructed as class.
RECURSIVE IsErrorOfType(_, _)
IsErrorOfType(class, errorClass) ==
    \/ class = errorClass
    \/ class \in DOMAIN Extends /\ IsErrorOfType(Extends[class], errorClass)

\* error.isRetryable() for an error constructed as class (a StaticDBError):
\* the nearest definition up the class chain.
RECURSIVE IsRetryable(_)
IsRetryable(class) ==
    IF class \in DOMAIN IsRetryableOverrides THEN IsRetryableOverrides[class]
    ELSE IsRetryable(Extends[class])

\* isRetryableError(error)
IsRetryableError(class) ==
    IsErrorOfType(class, "StaticDBError") /\ IsRetryable(class)

VARIABLES
    options,           \* the SyncServiceOptions the constructor was given
    maxRetries,        \* this.options.maxRetries
    retryDelay,        \* this.options.retryDelay
    currentCommitId,   \* remote: commit the branch head is at
    snapshots,         \* remote: snapshot stored for every commit id
    cache,             \* local: [snapshot, hasUnsyncedChanges]
    pc,                \* position of the running orchestrator call
    op,                \* "none" | "loadInitial" | "sync"
    localSnapshot,     \* sync's argument
    localState,        \* loadInitial: what local.load() returned
    remoteSnapshot,    \* what the call's first fetchSnapshot returned
    latestRemote,      \* sync: what the fallback fetchSnapshot returned
    attempt,           \* withRetry's attempt parameter
    pushError,         \* error the last pushSnapshot invocation threw
    pushErrors,        \* errors thrown by the pushSnapshot invocations, in order
    newCommitId,       \* pushResult.newCommitId
    result,            \* what the call returned
    thrown,            \* the SyncError the call threw
    fetchCalls,        \* fetchSnapshot invocations of the running call
    pushCalls,         \* pushSnapshot invocations of the running call
    saves,             \* local.save invocations of the running call: <<snapshot, synced, ok>>
    delays,            \* delay(ms) invocations of the running call
    cacheAtCall,       \* cache record when the running call started
    remoteAtCall,      \* remote head when the running call started
    appliedPushes,     \* pushes the remote applied for the running call
    calls,             \* orchestrator calls started so far
    pingOutcome,       \* canSync: "none" | "absent" | "ok" | "failed"
    localUsable,       \* canSync: whether local.init()/load() would succeed
    teardown,          \* destroy: ports whose destroy was invoked / has thrown
    prevPushed,        \* what the call just before returned, when it was 'pushed'
    ghHead,            \* GitHub: commit the branch ref points at
    ghParents,         \* GitHub: parent of every commit object (0: none)
    ghWasHead,         \* GitHub: every commit the branch has pointed at
    ghPush,            \* GitHubRemoteDatabase: the running pushSnapshot call
    ghPushes,          \* GitHubRemoteDatabase: pushSnapshot calls started
    saveQueue,         \* MemoryLocalDatabase: save calls suspended at await this.saveLock
    memLog,            \* MemoryLocalDatabase: the save and clear calls invoked, in order
    files,             \* NodeFileLocalDatabase: the snapshot file and the metadata file
    nodeCall,          \* NodeFileLocalDatabase: the running / last call
    committed,         \* per local port: what the last completed save or clear stored
    loaded,            \* what the last load() of a local port returned
    portCalls,         \* local port calls started
    syncs,             \* per caller of two overlapping sync calls: its position and locals
    accepted           \* the pushes of overlapping sync calls the remote applied

vars == <<options, maxRetries, retryDelay, currentCommitId, snapshots, cache, pc, op,
          localSnapshot, localState, remoteSnapshot, latestRemote, attempt,
          pushError, pushErrors, newCommitId, result, thrown, fetchCalls,
          pushCalls, saves, delays, cacheAtCall, remoteAtCall, appliedPushes,
          calls, pingOutcome, localUsable, teardown, prevPushed,
          ghHead, ghParents, ghWasHead, ghPush, ghPushes,
          saveQueue, memLog, files, nodeCall, committed, loaded,
          portCalls, syncs, accepted>>

concVars == <<syncs, accepted>>
config  == <<options, maxRetries, retryDelay>>
probeVars == <<pingOutcome, localUsable, teardown, prevPushed>>
ghVars == <<ghHead, ghParents, ghWasHead, ghPush, ghPushes>>
localVars == <<saveQueue, memLog, files, nodeCall, committed, loaded,
               portCalls>>
adapterVars == <<ghVars, localVars>>

\* The callers of two sync calls that overlap on one service.
Callers == {1, 2}

\* A caller that has not called sync yet.
NoSync ==
    [pc |-> "idle", localSnapshot |-> NoSnapshot, remoteSnapshot |-> NoSnapshot,
     latestRemote |-> NoSnapshot, attempt |-> 0, pushError |-> NoError,
     newCommitId |-> 0, pushCalls |-> 0, result |-> NoResult, thrown |-> NoThrow]

\* The call just before did not return 'pushed'.
NoPush == [snapshot |-> NoSnapshot, newCommitId |-> 0]

\* destroy has not been called: no port has been torn down.
NoTeardown == [invoked |-> {}, failed |-> {}]
remote  == <<currentCommitId, snapshots>>
callVars == <<pc, op, localSnapshot, localState, remoteSnapshot, latestRemote,
              attempt, pushError, pushErrors, newCommitId, result, thrown,
              fetchCalls, pushCalls, saves, delays, cacheAtCall, remoteAtCall,
              appliedPushes, calls>>

\* GitHubRemoteDatabase.pushSnapshot before it is called: no base commit,
\* no head read, no commit created, no request issued, nothing thrown.
NoGhPush ==
    [pc |-> "idle", base |-> 0, seen |-> 0, created |-> 0,
     requests |-> <<>>, outcome |-> "none", headAtUpdate |-> 0]

\* NodeFileLocalDatabase with neither file written.
NoFiles == [snapshot |-> NoSnapshot, metadata |-> "absent"]

\* NodeFileLocalDatabase before any call.
NoNodeCall ==
    [name |-> "none", pc |-> "idle", snapshot |-> NoSnapshot, synced |-> FALSE,
     outcome |-> "none",
     before |-> [snapshot |-> NoSnapshot, hasUnsyncedChanges |-> FALSE]]

\* No load() made yet.
NoLoad ==
    [port |-> "none",
     state |-> [snapshot |-> NoSnapshot, hasUnsyncedChanges |-> FALSE],
     register |-> [snapshot |-> NoSnapshot, hasUnsyncedChanges |-> FALSE]]

\* ------------------------------------------------------------- constructor
\* options.maxRetries || 3 ; options.retryDelay || 1000
OrDefault(option, default) ==
    IF option = Omitted \/ option = 0 THEN default ELSE option

\* ------------------------------------------------------------ remote port
\* MockRemoteDatabase.fetchSnapshot: the snapshot stored for the head.
FetchSnapshot == snapshots[currentCommitId]

\* Variant of PushAccepted: the remote applies every push.
PushAcceptedUnconditional(baseCommitId) == TRUE

\* MockRemoteDatabase.pushSnapshot's precondition.
PushAccepted(baseCommitId) == baseCommitId = currentCommitId

\* The commit id a successful push creates.
FreshCommitId == Len(snapshots) + 1

\* ------------------------------------------------------------- local port
\* Variant of LocalSave: the dirty flag is set to synced instead of !synced.
LocalSaveFlagNotNegated(snapshot, synced) ==
    [snapshot |-> snapshot, hasUnsyncedChanges |-> synced]

\* MemoryLocalDatabase.save
LocalSave(snapshot, synced) ==
    [snapshot |-> snapshot, hasUnsyncedChanges |-> ~synced]

\* MemoryLocalDatabase initial fields / clear()
EmptyCache == [snapshot |-> NoSnapshot, hasUnsyncedChanges |-> FALSE]

\* ------------------------------------------------------------------- Init
\* new DefaultSyncService({ remote, local, maxRetries: mr, retryDelay: rd })
Constructed(mr, rd) ==
    /\ options = [maxRetries |-> mr, retryDelay |-> rd]
    /\ maxRetries = OrDefault(mr, DefaultMaxRetries)
    /\ retryDelay = OrDefault(rd, DefaultRetryDelay)

\* The ports as constructed (MockRemoteDatabase holds the empty initial
\* snapshot, MemoryLocalDatabase holds nothing) and no call made yet.
NothingCalled ==
    /\ currentCommitId = 1
    /\ snapshots = << Snapshot(1, [schemas |-> <<>>, records |-> <<>>], "absent") >>
    /\ cache = EmptyCache
    /\ pc = "idle"
    /\ op = "none"
    /\ localSnapshot = NoSnapshot
    /\ localState = EmptyCache
    /\ remoteSnapshot = NoSnapshot
    /\ latestRemote = NoSnapshot
    /\ attempt = 0
    /\ pushError = NoError
    /\ pushErrors = <<>>
    /\ newCommitId = 0
    /\ result = NoResult
    /\ thrown = NoThrow
    /\ fetchCalls = 0
    /\ pushCalls = 0
    /\ saves = <<>>
    /\ delays = <<>>
    /\ cacheAtCall = EmptyCache
    /\ remoteAtCall = 1
    /\ appliedPushes = 0
    /\ calls = 0
    /\ pingOutcome = "none"
    /\ localUsable = TRUE
    /\ teardown = NoTeardown
    /\ prevPushed = NoPush
    /\ ghHead = 1
    /\ ghParents = <<0>>
    /\ ghWasHead = {1}
    /\ ghPush = NoGhPush
    /\ ghPushes = 0
    /\ saveQueue = <<>>
    /\ memLog = <<>>
    /\ files = NoFiles
    /\ nodeCall = NoNodeCall
    /\ committed = [memory |-> EmptyCache, nodeFile |-> EmptyCache]
    /\ loaded = NoLoad
    /\ portCalls = 0
    /\ syncs = [p \in Callers |-> NoSync]
    /\ accepted = <<>>

Init ==
    /\ \E mr \in MaxRetriesOptions, rd \in RetryDelayOptions :
          \* the service is built with both retry options or with neither
          /\ (mr = Omitted) <=> (rd = Omitted)
          /\ Constructed(mr, rd)
    /\ NothingCalled

\* The service built with any of the wider retry options.
InitRetry ==
    /\ \E mr \in WideMaxRetriesOptions, rd \in WideRetryDelayOptions :
          Constructed(mr, rd)
    /\ NothingCalled

\* ------------------------------------------------------------ environment
\* Another writer commits to the remote (MockRemoteDatabase.advanceRemote):
\* the head moves to a fresh commit id.
AdvanceRemote ==
    /\ teardown = NoTeardown
    /\ Len(snapshots) < MaxCommits
    /\ \E content \in AdvancedContents :
          snapshots' = Append(snapshots, Snapshot(FreshCommitId, content, "absent"))
    /\ currentCommitId' = FreshCommitId
    /\ UNCHANGED <<config, concVars, adapterVars, probeVars, cache, callVars>>

\* The application commits a local edit between two orchestrator calls:
\* local.save(edited, { synced: false }).  The finished call is over by
\* then: its result and what it did have been consumed and are forgotten.
AppEdit ==
    /\ pc \in {"idle", "done"}
    /\ cache.snapshot # NoSnapshot
    /\ \E content \in Contents :
          /\ content.schemas # cache.snapshot.schemas \/ content.records # cache.snapshot.records
          /\ cache' = LocalSave(Snapshot(cache.snapshot.commitId, content, cache.snapshot.meta), FALSE)
    /\ pc' = "idle"
    /\ op' = "none"
    /\ localSnapshot' = NoSnapshot
    /\ localState' = EmptyCache
    /\ remoteSnapshot' = NoSnapshot
    /\ latestRemote' = NoSnapshot
    /\ attempt' = 0
    /\ pushError' = NoError
    /\ pushErrors' = <<>>
    /\ newCommitId' = 0
    /\ result' = NoResult
    /\ thrown' = NoThrow
    /\ fetchCalls' = 0
    /\ pushCalls' = 0
    /\ saves' = <<>>
    /\ delays' = <<>>
    /\ cacheAtCall' = EmptyCache
    /\ remoteAtCall' = 1
    /\ appliedPushes' = 0
    /\ pingOutcome' = "none"
    /\ localUsable' = TRUE
    /\ prevPushed' = NoPush
    /\ UNCHANGED <<config, concVars, adapterVars, remote, teardown, calls>>

\* ------------------------------------------------------ orchestrator calls
\* State of a call that has just been entered.
EnterCall(name, arg) ==
    /\ pc \in {"idle", "done"}
    /\ teardown = NoTeardown
    /\ calls < MaxCalls
    /\ calls' = calls + 1
    /\ op' = name
    /\ localSnapshot' = arg
    /\ localState' = EmptyCache
    /\ remoteSnapshot' = NoSnapshot
    /\ latestRemote' = NoSnapshot
    /\ attempt' = 0
    /\ pushError' = NoError
    /\ pushErrors' = <<>>
    /\ newCommitId' = 0
    /\ result' = NoResult
    /\ thrown' = NoThrow
    /\ fetchCalls' = 0
    /\ pushCalls' = 0
    /\ saves' = <<>>
    /\ delays' = <<>>
    /\ cacheAtCall' = cache
    /\ remoteAtCall' = currentCommitId
    /\ appliedPushes' = 0
    /\ pingOutcome' = "none"
    /\ teardown' = NoTeardown
    /\ prevPushed' = IF pc = "done" /\ result.status = "pushed"
                        THEN [snapshot |-> result.snapshot, newCommitId |-> newCommitId]
                        ELSE NoPush
    /\ UNCHANGED <<config, concVars, adapterVars, remote, cache>>

\* A save the running call issued: the snapshot, the synced option and
\* whether the save completed.
SaveCall(snapshot, synced, ok) ==
    [snapshot |-> snapshot, synced |-> synced, ok |-> ok]

\* Variant of Throw: the syncPhase of loadInitial is used everywhere.
ThrowInitialLoadPhase(phase, code, cause) ==
    /\ thrown' = [class |-> "SyncError", phase |-> "initial_load",
                  code |-> code, cause |-> cause]
    /\ pc' = "done"

\* throw new SyncError(message, code, cause, syncPhase)
Throw(phase, code, cause) ==
    /\ thrown' = [class |-> "SyncError", phase |-> phase,
                  code |-> code, cause |-> cause]
    /\ pc' = "done"

\* return snapshot  (loadInitial)
ReturnSnapshot(snapshot) ==
    /\ result' = [NoResult EXCEPT !.status = "returned", !.snapshot = snapshot]
    /\ pc' = "done"

\* Variant of ResetToRemoteResult: the caller's snapshot is handed back
\* instead of the fetched one.
ResetToRemoteResultKeepsLocal(snapshot, local, reason) ==
    [status |-> "resetToRemote", snapshot |-> local,
     previousCommitId |-> local.commitId,
     changesPushed |-> Omitted, reason |-> reason]

\* return { status: "resetToRemote", snapshot, meta: { previousCommitId,
\*          reason } }  (sync)
ResetToRemoteResult(snapshot, local, reason) ==
    [status |-> "resetToRemote", snapshot |-> snapshot,
     previousCommitId |-> local.commitId,
     changesPushed |-> Omitted, reason |-> reason]

\* changesPushed: localSnapshot.schemas.length + localSnapshot.records.length
ChangesPushed(local) == Len(local.schemas) + Len(local.records)

\* return { status: "pushed", snapshot: newSnapshot, meta: { previousCommitId,
\*          changesPushed, reason } }  (sync)
PushedResult(newSnapshot, local) ==
    [status |-> "pushed", snapshot |-> newSnapshot,
     previousCommitId |-> local.commitId,
     changesPushed |-> ChangesPushed(local),
     reason |-> "Local changes pushed successfully"]

\* sync returns a SyncResult.
ReturnResult(syncResult) ==
    /\ result' = syncResult
    /\ pc' = "done"

\* Variant of RemoteNewer: the comparison is inverted.
RemoteNewerInverted(remoteSnap, cached) == remoteSnap.commitId = cached.commitId

\* loadInitial: remoteSnapshot.commitId !== localState.snapshot.commitId
RemoteNewer(remoteSnap, cached) == remoteSnap.commitId # cached.commitId

\* Variant of RemoteAdvanced: the fetched commit id is compared with itself.
RemoteAdvancedSelfCompare(remoteSnap, local) == remoteSnap.commitId # remoteSnap.commitId

\* sync: remoteSnapshot.commitId !== localSnapshot.commitId
RemoteAdvanced(remoteSnap, local) == remoteSnap.commitId # local.commitId

\* ------------------------------------------------------------ loadInitial
LoadInitial ==
    /\ EnterCall("loadInitial", NoSnapshot)
    /\ localUsable' = TRUE
    /\ pc' = "li_init"

\* await Promise.all([local.init(), remote.init?.()])
LiInit ==
    /\ pc = "li_init"
    /\ \/ /\ pc' = "li_load"
          /\ UNCHANGED thrown
       \/ \E cause \in {"local.init failed", "remote.init failed"} :
             Throw("initial_load", "INITIAL_LOAD_FAILED", cause)
    /\ UNCHANGED <<config, concVars, adapterVars, probeVars, remote, cache, op, localSnapshot, localState,
                   remoteSnapshot, latestRemote, attempt, pushError, pushErrors,
                   newCommitId, result, fetchCalls, pushCalls, saves, delays,
                   cacheAtCall, remoteAtCall, appliedPushes, calls>>

\* const localState = await local.load()
LiLoad ==
    /\ pc = "li_load"
    /\ \/ /\ localState' = cache
          /\ pc' = IF cache.snapshot = NoSnapshot THEN "li_fetch_first" ELSE "li_fetch"
          /\ UNCHANGED thrown
       \/ /\ Throw("initial_load", "INITIAL_LOAD_FAILED", "local.load failed")
          /\ UNCHANGED localState
    /\ UNCHANGED <<config, concVars, adapterVars, probeVars, remote, cache, op, localSnapshot,
                   remoteSnapshot, latestRemote, attempt, pushError, pushErrors,
                   newCommitId, result, fetchCalls, pushCalls, saves, delays,
                   cacheAtCall, remoteAtCall, appliedPushes, calls>>

\* Variant of LiFetchFirst: a failing first-run fetch is swallowed and the
\* (absent) local snapshot returned, as on the offline path.
LiFetchFirstSwallows ==
    /\ pc = "li_fetch_first"
    /\ fetchCalls' = fetchCalls + 1
    /\ \/ /\ remoteSnapshot' = FetchSnapshot
          /\ pc' = "li_save_first"
          /\ UNCHANGED result
       \/ /\ ReturnSnapshot(localState.snapshot)
          /\ UNCHANGED remoteSnapshot
    /\ UNCHANGED <<config, concVars, adapterVars, probeVars, remote, cache, op, localSnapshot, localState,
                   latestRemote, attempt, pushError, pushErrors,
                   newCommitId, thrown, pushCalls, saves, delays,
                   cacheAtCall, remoteAtCall, appliedPushes, calls>>

\* First time setup: const remoteSnapshot = await remote.fetchSnapshot()
LiFetchFirst ==
    /\ pc = "li_fetch_first"
    /\ fetchCalls' = fetchCalls + 1
    /\ \/ /\ remoteSnapshot' = FetchSnapshot
          /\ pc' = "li_save_first"
          /\ UNCHANGED thrown
       \/ /\ Throw("initial_load", "INITIAL_LOAD_FAILED", "remote.fetchSnapshot failed")
          /\ UNCHANGED remoteSnapshot
    /\ UNCHANGED <<config, concVars, adapterVars, probeVars, remote, cache, op, localSnapshot, localState,
                   latestRemote, attempt, pushError, pushErrors,
                   newCommitId, result, pushCalls, saves, delays,
                   cacheAtCall, remoteAtCall, appliedPushes, calls>>

\* await local.save(remoteSnapshot, { synced: true, reason: "fetch" });
\* return remoteSnapshot
LiSaveFirst ==
    /\ pc = "li_save_first"
    /\ \/ /\ cache' = LocalSave(remoteSnapshot, TRUE)
          /\ saves' = Append(saves, SaveCall(remoteSnapshot, TRUE, TRUE))
          /\ ReturnSnapshot(remoteSnapshot)
          /\ UNCHANGED thrown
       \/ /\ saves' = Append(saves, SaveCall(remoteSnapshot, TRUE, FALSE))
          /\ Throw("initial_load", "INITIAL_LOAD_FAILED", "local.save failed")
          /\ UNCHANGED <<cache, result>>
    /\ UNCHANGED <<config, concVars, adapterVars, probeVars, remote, op, localSnapshot, localState,
                   remoteSnapshot, latestRemote, attempt, pushError, pushErrors,
                   newCommitId, fetchCalls, pushCalls, delays,
                   cacheAtCall, remoteAtCall, appliedPushes, calls>>

\* Variant of LiFetch: on matching versions the fetched snapshot is returned
\* instead of the cached one.
LiFetchReturnsFetched ==
    /\ pc = "li_fetch"
    /\ fetchCalls' = fetchCalls + 1
    /\ \/ /\ remoteSnapshot' = FetchSnapshot
          /\ IF RemoteNewer(FetchSnapshot, localState.snapshot)
                THEN /\ pc' = "li_save_reset"
                     /\ UNCHANGED result
                ELSE ReturnSnapshot(FetchSnapshot)
       \/ /\ ReturnSnapshot(localState.snapshot)
          /\ UNCHANGED remoteSnapshot
    /\ UNCHANGED <<config, concVars, adapterVars, probeVars, remote, cache, op, localSnapshot, localState,
                   latestRemote, attempt, pushError, pushErrors,
                   newCommitId, thrown, pushCalls, saves, delays,
                   cacheAtCall, remoteAtCall, appliedPushes, calls>>

\* Variant of LiFetch: a failing fetch is escalated instead of swallowed.
LiFetchEscalates ==
    /\ pc = "li_fetch"
    /\ fetchCalls' = fetchCalls + 1
    /\ \/ /\ remoteSnapshot' = FetchSnapshot
          /\ IF RemoteNewer(FetchSnapshot, localState.snapshot)
                THEN /\ pc' = "li_save_reset"
                     /\ UNCHANGED result
                ELSE ReturnSnapshot(localState.snapshot)
          /\ UNCHANGED thrown
       \/ /\ Throw("initial_load", "INITIAL_LOAD_FAILED", "remote.fetchSnapshot failed")
          /\ UNCHANGED <<remoteSnapshot, result>>
    /\ UNCHANGED <<config, concVars, adapterVars, probeVars, remote, cache, op, localSnapshot, localState,
                   latestRemote, attempt, pushError, pushErrors,
                   newCommitId, pushCalls, saves, delays,
                   cacheAtCall, remoteAtCall, appliedPushes, calls>>

\* Local state exists: try { const remoteSnapshot = await remote.fetchSnapshot()
\* ... } catch (fetchError) { return localState.snapshot }
LiFetch ==
    /\ pc = "li_fetch"
    /\ fetchCalls' = fetchCalls + 1
    /\ \/ /\ remoteSnapshot' = FetchSnapshot
          /\ IF RemoteNewer(FetchSnapshot, localState.snapshot)
                THEN /\ pc' = "li_save_reset"
                     /\ UNCHANGED result
                ELSE ReturnSnapshot(localState.snapshot)
       \/ /\ ReturnSnapshot(localState.snapshot)
          /\ UNCHANGED remoteSnapshot
    /\ UNCHANGED <<config, concVars, adapterVars, probeVars, remote, cache, op, localSnapshot, localState,
                   latestRemote, attempt, pushError, pushErrors,
                   newCommitId, thrown, pushCalls, saves, delays,
                   cacheAtCall, remoteAtCall, appliedPushes, calls>>

\* Remote has advanced: await local.save(remoteSnapshot, { synced: true,
\* reason: "reset" }); return remoteSnapshot.  The save sits inside the
\* inner try, so a failing save is caught and the local snapshot returned.
LiSaveReset ==
    /\ pc = "li_save_reset"
    /\ \/ /\ cache' = LocalSave(remoteSnapshot, TRUE)
          /\ saves' = Append(saves, SaveCall(remoteSnapshot, TRUE, TRUE))
          /\ ReturnSnapshot(remoteSnapshot)
       \/ /\ saves' = Append(saves, SaveCall(remoteSnapshot, TRUE, FALSE))
          /\ ReturnSnapshot(localState.snapshot)
          /\ UNCHANGED cache
    /\ UNCHANGED <<config, concVars, adapterVars, probeVars, remote, op, localSnapshot, localState,
                   remoteSnapshot, latestRemote, attempt, pushError, pushErrors,
                   newCommitId, thrown, fetchCalls, pushCalls, delays,
                   cacheAtCall, remoteAtCall, appliedPushes, calls>>


\* ------------------------------------------------------------------- sync
\* Snapshots the caller may pass to sync: any snapshot built on a known
\* commit, or the snapshot the call just before returned as 'pushed'.
SyncArguments ==
    { Snapshot(c, content, m) :
          c \in 1..Len(snapshots), content \in Contents, m \in CallerMetas }
    \cup (IF pc = "done" /\ result.status = "pushed" THEN {result.snapshot} ELSE {})

\* sync(localSnapshot) for any snapshot the caller may hold.
Sync ==
    /\ \E arg \in SyncArguments : EnterCall("sync", arg)
    /\ localUsable' = TRUE
    /\ pc' = "sync_fetch"

\* Variant of SyncFetch: when the versions match and the caller's contents
\* are the fetched ones, the call returns 'upToDate' without any transfer.
SyncFetchUpToDate ==
    /\ pc = "sync_fetch"
    /\ fetchCalls' = fetchCalls + 1
    /\ \/ /\ remoteSnapshot' = FetchSnapshot
          /\ IF RemoteAdvanced(FetchSnapshot, localSnapshot)
                THEN /\ pc' = "sync_save_reset"
                     /\ UNCHANGED <<attempt, result>>
                ELSE IF /\ FetchSnapshot.schemas = localSnapshot.schemas
                        /\ FetchSnapshot.records = localSnapshot.records
                THEN /\ ReturnResult([NoResult EXCEPT !.status = "upToDate",
                                                      !.snapshot = localSnapshot])
                     /\ UNCHANGED attempt
                ELSE /\ pc' = "sync_push"
                     /\ attempt' = 1
                     /\ UNCHANGED result
          /\ UNCHANGED thrown
       \/ /\ Throw("sync", "SYNC_FAILED", "remote.fetchSnapshot failed")
          /\ UNCHANGED <<remoteSnapshot, attempt, result>>
    /\ UNCHANGED <<config, concVars, adapterVars, probeVars, remote, cache, op, localSnapshot, localState,
                   latestRemote, pushError, pushErrors, newCommitId,
                   pushCalls, saves, delays, cacheAtCall, remoteAtCall,
                   appliedPushes, calls>>

\* const remoteSnapshot = await remote.fetchSnapshot();
\* if (remoteSnapshot.commitId !== localSnapshot.commitId) ...
SyncFetch ==
    /\ pc = "sync_fetch"
    /\ fetchCalls' = fetchCalls + 1
    /\ \/ /\ remoteSnapshot' = FetchSnapshot
          /\ IF RemoteAdvanced(FetchSnapshot, localSnapshot)
                THEN /\ pc' = "sync_save_reset"
                     /\ UNCHANGED attempt
                ELSE /\ pc' = "sync_push"
                     /\ attempt' = 1
          /\ UNCHANGED thrown
       \/ /\ Throw("sync", "SYNC_FAILED", "remote.fetchSnapshot failed")
          /\ UNCHANGED <<remoteSnapshot, attempt>>
    /\ UNCHANGED <<config, concVars, adapterVars, probeVars, remote, cache, op, localSnapshot, localState,
                   latestRemote, pushError, pushErrors, newCommitId, result,
                   pushCalls, saves, delays, cacheAtCall, remoteAtCall,
                   appliedPushes, calls>>

\* Variant of SyncSaveReset: the caller's snapshot is what gets saved as
\* synced, the fetched one is only returned.
SyncSaveResetSavesLocal ==
    /\ pc = "sync_save_reset"
    /\ \/ /\ cache' = LocalSave(localSnapshot, TRUE)
          /\ saves' = Append(saves, SaveCall(localSnapshot, TRUE, TRUE))
          /\ ReturnResult(ResetToRemoteResult(remoteSnapshot, localSnapshot,
                                              "Remote advanced since last sync"))
          /\ UNCHANGED thrown
       \/ /\ saves' = Append(saves, SaveCall(localSnapshot, TRUE, FALSE))
          /\ Throw("sync", "SYNC_FAILED", "local.save failed")
          /\ UNCHANGED <<cache, result>>
    /\ UNCHANGED <<config, concVars, adapterVars, probeVars, remote, op, localSnapshot, localState,
                   remoteSnapshot, latestRemote, attempt, pushError, pushErrors,
                   newCommitId, fetchCalls, pushCalls, delays,
                   cacheAtCall, remoteAtCall, appliedPushes, calls>>

\* Remote advanced: await local.save(remoteSnapshot, { synced: true,
\* reason: "reset" }); return { status: "resetToRemote", ... }
SyncSaveReset ==
    /\ pc = "sync_save_reset"
    /\ \/ /\ cache' = LocalSave(remoteSnapshot, TRUE)
          /\ saves' = Append(saves, SaveCall(remoteSnapshot, TRUE, TRUE))
          /\ ReturnResult(ResetToRemoteResult(remoteSnapshot, localSnapshot,
                                              "Remote advanced since last sync"))
          /\ UNCHANGED thrown
       \/ /\ saves' = Append(saves, SaveCall(remoteSnapshot, TRUE, FALSE))
          /\ Throw("sync", "SYNC_FAILED", "local.save failed")
          /\ UNCHANGED <<cache, result>>
    /\ UNCHANGED <<config, concVars, adapterVars, probeVars, remote, op, localSnapshot, localState,
                   remoteSnapshot, latestRemote, attempt, pushError, pushErrors,
                   newCommitId, fetchCalls, pushCalls, delays,
                   cacheAtCall, remoteAtCall, appliedPushes, calls>>

\* Variant of AfterPushFailure: OutOfDateError is retried like any error.
AfterPushFailureRetriesOutOfDate(error, att) ==
    IF att >= maxRetries THEN "sync_fetch_latest" ELSE "sync_delay"

\* Variant of AfterPushFailure: attempt > maxRetries instead of >=.
AfterPushFailureOffByOne(error, att) ==
    IF error = "OutOfDateError" THEN "sync_fetch_latest"
    ELSE IF att > maxRetries THEN "sync_fetch_latest"
    ELSE "sync_delay"

\* Variant of AfterPushFailure: the fallback resets to the snapshot of the
\* first fetch instead of fetching again.
AfterPushFailureNoRefetch(error, att) ==
    IF error = "OutOfDateError" THEN "sync_save_reset"
    ELSE IF att >= maxRetries THEN "sync_save_reset"
    ELSE "sync_delay"

\* withRetry's catch block: which position follows a failed attempt.
\* OutOfDateError and an exhausted attempt count rethrow into sync's
\* catch (pushError); anything else waits and retries.
AfterPushFailure(error, att) ==
    IF error = "OutOfDateError" THEN "sync_fetch_latest"
    ELSE IF att >= maxRetries THEN "sync_fetch_latest"
    ELSE "sync_delay"

\* One invocation of operation() inside withRetry:
\* remote.pushSnapshot(localSnapshot.commitId, { schemas, records, meta })
SyncPush ==
    /\ pc = "sync_push"
    /\ pushCalls' = pushCalls + 1
    /\ \/ \* the remote applies the candidate and returns { newCommitId }
          /\ PushAccepted(localSnapshot.commitId)
          /\ Len(snapshots) < MaxCommits
          /\ snapshots' = Append(snapshots, [localSnapshot EXCEPT !.commitId = FreshCommitId])
          /\ currentCommitId' = FreshCommitId
          /\ newCommitId' = FreshCommitId
          /\ appliedPushes' = appliedPushes + 1
          /\ pc' = "sync_save_pushed"
          /\ UNCHANGED <<pushError, pushErrors>>
       \/ \* the remote rejects the candidate or cannot be reached
          /\ \E error \in PushErrors :
                /\ ~PushAccepted(localSnapshot.commitId) => error = "OutOfDateError"
                /\ pushError' = error
                /\ pushErrors' = Append(pushErrors, error)
                /\ pc' = AfterPushFailure(error, attempt)
          /\ UNCHANGED <<remote, newCommitId, appliedPushes>>
    /\ UNCHANGED <<config, concVars, adapterVars, probeVars, cache, op, localSnapshot, localState,
                   remoteSnapshot, latestRemote, attempt, result, thrown,
                   fetchCalls, saves, delays, cacheAtCall, remoteAtCall, calls>>

\* Variant of SyncDelay: exponential backoff, retryDelay * 2^(attempt - 1).
SyncDelayExponential ==
    /\ pc = "sync_delay"
    /\ delays' = Append(delays, retryDelay * 2 ^ (attempt - 1))
    /\ attempt' = attempt + 1
    /\ pc' = "sync_push"
    /\ UNCHANGED <<config, concVars, adapterVars, probeVars, remote, cache, op, localSnapshot, localState,
                   remoteSnapshot, latestRemote, pushError, pushErrors,
                   newCommitId, result, thrown, fetchCalls, pushCalls, saves,
                   cacheAtCall, remoteAtCall, appliedPushes, calls>>

\* await this.delay(retryDelay * attempt);
\* return this.withRetry(operation, operationName, attempt + 1)
SyncDelay ==
    /\ pc = "sync_delay"
    /\ delays' = Append(delays, retryDelay * attempt)
    /\ attempt' = attempt + 1
    /\ pc' = "sync_push"
    /\ UNCHANGED <<config, concVars, adapterVars, probeVars, remote, cache, op, localSnapshot, localState,
                   remoteSnapshot, latestRemote, pushError, pushErrors,
                   newCommitId, result, thrown, fetchCalls, pushCalls, saves,
                   cacheAtCall, remoteAtCall, appliedPushes, calls>>

\* Variant of NewSnapshot: the orchestrator numbers the new version itself
\* instead of taking the id the remote returned.
NewSnapshotLocalCommit(local, commit) ==
    [local EXCEPT !.commitId = local.commitId + MaxCommits, !.meta = "now"]

\* Variant of NewSnapshot: the commitId override is missing.
NewSnapshotStaleCommit(local, commit) ==
    [local EXCEPT !.meta = "now"]

\* const newSnapshot = { ...localSnapshot, commitId: pushResult.newCommitId,
\*                       meta: { ...localSnapshot.meta, fetchedAt: now } }
NewSnapshot(local, commit) ==
    [local EXCEPT !.commitId = commit, !.meta = "now"]

\* Push succeeded: await local.save(newSnapshot, { synced: true,
\* reason: "sync" }); return { status: "pushed", ... }.  The save sits
\* inside the try of the push, so a failing save lands in catch (pushError).
SyncSavePushed ==
    /\ pc = "sync_save_pushed"
    /\ LET newSnapshot == NewSnapshot(localSnapshot, newCommitId) IN
       \/ /\ cache' = LocalSave(newSnapshot, TRUE)
          /\ saves' = Append(saves, SaveCall(newSnapshot, TRUE, TRUE))
          /\ ReturnResult(PushedResult(newSnapshot, localSnapshot))
          /\ UNCHANGED pushError
       \/ /\ saves' = Append(saves, SaveCall(newSnapshot, TRUE, FALSE))
          /\ pushError' = "local.save failed"
          /\ pc' = "sync_fetch_latest"
          /\ UNCHANGED <<cache, result>>
    /\ UNCHANGED <<config, concVars, adapterVars, probeVars, remote, op, localSnapshot, localState,
                   remoteSnapshot, latestRemote, attempt, pushErrors,
                   newCommitId, thrown, fetchCalls, pushCalls, delays,
                   cacheAtCall, remoteAtCall, appliedPushes, calls>>

\* Variant of SyncFetchLatest: a failing fallback fetch is tried once more
\* before it is given up.
SyncFetchLatestRetried ==
    /\ pc = "sync_fetch_latest"
    /\ fetchCalls' = fetchCalls + 1
    /\ \/ /\ latestRemote' = FetchSnapshot
          /\ pc' = "sync_save_latest"
          /\ UNCHANGED thrown
       \/ /\ fetchCalls < 2
          /\ UNCHANGED <<pc, thrown, latestRemote>>
       \/ /\ fetchCalls >= 2
          /\ Throw("sync", "SYNC_FAILED", "remote.fetchSnapshot failed")
          /\ UNCHANGED latestRemote
    /\ UNCHANGED <<config, concVars, adapterVars, probeVars, remote, cache, op, localSnapshot, localState,
                   remoteSnapshot, attempt, pushError, pushErrors, newCommitId,
                   result, pushCalls, saves, delays, cacheAtCall, remoteAtCall,
                   appliedPushes, calls>>

\* catch (pushError): const latestRemote = await remote.fetchSnapshot()
SyncFetchLatest ==
    /\ pc = "sync_fetch_latest"
    /\ fetchCalls' = fetchCalls + 1
    /\ \/ /\ latestRemote' = FetchSnapshot
          /\ pc' = "sync_save_latest"
          /\ UNCHANGED thrown
       \/ /\ Throw("sync", "SYNC_FAILED", "remote.fetchSnapshot failed")
          /\ UNCHANGED latestRemote
    /\ UNCHANGED <<config, concVars, adapterVars, probeVars, remote, cache, op, localSnapshot, localState,
                   remoteSnapshot, attempt, pushError, pushErrors, newCommitId,
                   result, pushCalls, saves, delays, cacheAtCall, remoteAtCall,
                   appliedPushes, calls>>

\* reason: `Push failed: ${pushError.message}`
PushFailedReason(error) == "Push failed: " \o error

\* Variant of SyncSaveLatest: a save that throws has written the record
\* before it throws.
SyncSaveLatestTorn ==
    /\ pc = "sync_save_latest"
    /\ \/ /\ cache' = LocalSave(latestRemote, TRUE)
          /\ saves' = Append(saves, SaveCall(latestRemote, TRUE, TRUE))
          /\ ReturnResult(ResetToRemoteResult(latestRemote, localSnapshot,
                                              PushFailedReason(pushError)))
          /\ UNCHANGED thrown
       \/ /\ cache' = LocalSave(latestRemote, TRUE)
          /\ saves' = Append(saves, SaveCall(latestRemote, TRUE, FALSE))
          /\ Throw("sync", "SYNC_FAILED", "local.save failed")
          /\ UNCHANGED result
    /\ UNCHANGED <<config, concVars, adapterVars, probeVars, remote, op, localSnapshot, localState,
                   remoteSnapshot, latestRemote, attempt, pushError, pushErrors,
                   newCommitId, fetchCalls, pushCalls, delays,
                   cacheAtCall, remoteAtCall, appliedPushes, calls>>

\* Variant of SyncSaveLatest: after a failed push the caller's edits are kept
\* in the cache as unsynced instead of being replaced by the latest remote.
SyncSaveLatestKeepsDirty ==
    /\ pc = "sync_save_latest"
    /\ \/ /\ cache' = LocalSave(localSnapshot, FALSE)
          /\ saves' = Append(saves, SaveCall(localSnapshot, FALSE, TRUE))
          /\ ReturnResult(ResetToRemoteResult(latestRemote, localSnapshot,
                                              PushFailedReason(pushError)))
          /\ UNCHANGED thrown
       \/ /\ saves' = Append(saves, SaveCall(localSnapshot, FALSE, FALSE))
          /\ Throw("sync", "SYNC_FAILED", "local.save failed")
          /\ UNCHANGED <<cache, result>>
    /\ UNCHANGED <<config, concVars, adapterVars, probeVars, remote, op, localSnapshot, localState,
                   remoteSnapshot, latestRemote, attempt, pushError, pushErrors,
                   newCommitId, fetchCalls, pushCalls, delays,
                   cacheAtCall, remoteAtCall, appliedPushes, calls>>

\* await local.save(latestRemote, { synced: true, reason: "reset" });
\* return { status: "resetToRemote", snapshot: latestRemote, ... }
SyncSaveLatest ==
    /\ pc = "sync_save_latest"
    /\ \/ /\ cache' = LocalSave(latestRemote, TRUE)
          /\ saves' = Append(saves, SaveCall(latestRemote, TRUE, TRUE))
          /\ ReturnResult(ResetToRemoteResult(latestRemote, localSnapshot,
                                              PushFailedReason(pushError)))
          /\ UNCHANGED thrown
       \/ /\ saves' = Append(saves, SaveCall(latestRemote, TRUE, FALSE))
          /\ Throw("sync", "SYNC_FAILED", "local.save failed")
          /\ UNCHANGED <<cache, result>>
    /\ UNCHANGED <<config, concVars, adapterVars, probeVars, remote, op, localSnapshot, localState,
                   remoteSnapshot, latestRemote, attempt, pushError, pushErrors,
                   newCommitId, fetchCalls, pushCalls, delays,
                   cacheAtCall, remoteAtCall, appliedPushes, calls>>

\* ---------------------------------------------------------------- canSync
\* canSync(localSnapshot), called with the snapshot the cache holds (the
\* argument is only logged); the local database may or may not be usable
\* while the call runs.
CanSync ==
    /\ EnterCall("canSync", cache.snapshot)
    /\ \E usable \in BOOLEAN : localUsable' = usable
    /\ pc' = "cs_ping"

\* Variant of CanSyncResult: the catch block answers true as well.
CanSyncResultAlwaysTrue(outcome) == "true"

\* try { await remote.ping?.(); return true } catch { return false }
\* An absent ping makes the optional call resolve at once.
CanSyncResult(outcome) == IF outcome = "failed" THEN "false" ELSE "true"

\* await this.options.remote.ping?.()
CsPing ==
    /\ pc = "cs_ping"
    /\ \E outcome \in {"absent", "ok", "failed"} :
          /\ pingOutcome' = outcome
          /\ result' = [NoResult EXCEPT !.status = CanSyncResult(outcome)]
    /\ pc' = "done"
    /\ UNCHANGED <<config, concVars, adapterVars, remote, cache, op, localSnapshot, localState,
                   remoteSnapshot, latestRemote, attempt, pushError, pushErrors,
                   newCommitId, thrown, fetchCalls, pushCalls, saves, delays,
                   cacheAtCall, remoteAtCall, appliedPushes, calls,
                   localUsable, teardown, prevPushed>>

\* ---------------------------------------------------------------- destroy
Destroy ==
    /\ EnterCall("destroy", NoSnapshot)
    /\ localUsable' = TRUE
    /\ pc' = "destroy_all"

\* Variant of DestroyInvoked: the two ports are torn down one after the
\* other, so a failing local.destroy() skips remote.destroy().
DestroyInvokedSequential(failed) ==
    IF "local" \in failed THEN {"local"} ELSE {"local", "remote"}

\* Promise.all([local.destroy?.(), remote.destroy?.()]): both calls are
\* started before either result is awaited, whichever of them fails.
DestroyInvoked(failed) == {"local", "remote"}

\* await Promise.all([...]); a failure is rethrown as SyncError 'destroy'.
\* MemoryLocalDatabase.destroy clears the cache, MockRemoteDatabase.destroy
\* clears its snapshots; a destroy that throws leaves its port as it was.
DestroyAll ==
    /\ pc = "destroy_all"
    /\ \E failed \in SUBSET {"local", "remote"} :
          LET invoked == DestroyInvoked(failed)
              done == invoked \ failed
          IN /\ teardown' = [invoked |-> invoked, failed |-> failed \cap invoked]
             /\ cache' = IF "local" \in done THEN EmptyCache ELSE cache
             /\ snapshots' = IF "remote" \in done THEN <<>> ELSE snapshots
             /\ IF failed \cap invoked # {}
                   THEN Throw("destroy", "DESTROY_FAILED", "port.destroy failed")
                   ELSE /\ pc' = "done"
                        /\ UNCHANGED thrown
    /\ UNCHANGED <<config, concVars, adapterVars, currentCommitId, op, localSnapshot, localState,
                   remoteSnapshot, latestRemote, attempt, pushError, pushErrors,
                   newCommitId, result, fetchCalls, pushCalls, saves, delays,
                   cacheAtCall, remoteAtCall, appliedPushes, calls,
                   pingOutcome, localUsable, prevPushed>>

\* ------------------------------------------- GitHubRemoteDatabase.pushSnapshot
\* Commit a is commit b or one of its ancestors.
RECURSIVE IsAncestor(_, _)
IsAncestor(a, b) ==
    IF b = 0 THEN FALSE
    ELSE IF a = b THEN TRUE
    ELSE IsAncestor(a, ghParents[b])

\* What a failed request surfaces as: NetworkError for a response that is
\* not ok, and what wrapError makes of a rejected fetch.
GhRequestErrors == {"NetworkError", "RemoteDatabaseError"}

\* The call ends by throwing: wrapError hands a RemoteDatabaseError on as
\* it is.
GhThrow(call, error) == [call EXCEPT !.pc = "done", !.outcome = error]

\* Variant of RefUpdateAccepted: the PATCH body carries force: true, so the
\* ref is moved whatever it points at.
RefUpdateForced(commit, head) == TRUE

\* updateReference sends PATCH .../git/refs/heads/<branch> with { sha } and
\* no force flag: the server moves the ref only when that is a
\* fast-forward, i.e. when the commit descends from the present head.
RefUpdateAccepted(commit, head) == IsAncestor(head, commit)

\* Another writer pushes to the branch: a commit on top of the head.
GhOtherWriter ==
    /\ Len(ghParents) < MaxGhCommits
    /\ ghParents' = Append(ghParents, ghHead)
    /\ ghHead' = Len(ghParents) + 1
    /\ ghWasHead' = ghWasHead \cup {Len(ghParents) + 1}
    /\ UNCHANGED <<config, concVars, probeVars, remote, cache, callVars, localVars, ghPush, ghPushes>>

\* pushSnapshot(baseCommitId, newSnapshot) with a valid snapshot and a
\* baseCommitId the caller once fetched.
GhPushSnapshot ==
    /\ ghPush.pc \in {"idle", "done"}
    /\ ghPushes < MaxGhPushes
    /\ ghPushes' = ghPushes + 1
    /\ \E base \in ghWasHead :
          ghPush' = [NoGhPush EXCEPT !.pc = "get_head", !.base = base]
    /\ UNCHANGED <<config, concVars, probeVars, remote, cache, callVars, localVars,
                   ghHead, ghParents, ghWasHead>>

\* const currentHead = await this.getHeadCommitSha();
\* if (currentHead !== baseCommitId) throw this.createOutOfDateError(...)
GhGetHead ==
    /\ ghPush.pc = "get_head"
    /\ LET call == [ghPush EXCEPT !.requests = Append(@, "GET ref")] IN
       \/ ghPush' = IF ghHead # call.base
                       THEN GhThrow([call EXCEPT !.seen = ghHead], "OutOfDateError")
                       ELSE [call EXCEPT !.seen = ghHead, !.pc = "create_tree"]
       \/ \E error \in GhRequestErrors : ghPush' = GhThrow(call, error)
    /\ UNCHANGED <<config, concVars, probeVars, remote, cache, callVars, localVars,
                   ghHead, ghParents, ghWasHead, ghPushes>>

\* const treeResponse = await this.createGitTree(treeItems, baseCommitId)
GhCreateTree ==
    /\ ghPush.pc = "create_tree"
    /\ LET call == [ghPush EXCEPT !.requests = Append(@, "POST trees")] IN
       \/ ghPush' = [call EXCEPT !.pc = "create_commit"]
       \/ \E error \in GhRequestErrors : ghPush' = GhThrow(call, error)
    /\ UNCHANGED <<config, concVars, probeVars, remote, cache, callVars, localVars,
                   ghHead, ghParents, ghWasHead, ghPushes>>

\* const commitResponse = await this.createCommit("Update CMS data",
\*     treeResponse.sha, [baseCommitId]): a commit object whose parent is
\* the base; the branch does not point at it yet.
GhCreateCommit ==
    /\ ghPush.pc = "create_commit"
    /\ LET call == [ghPush EXCEPT !.requests = Append(@, "POST commits")] IN
       \/ /\ Len(ghParents) < MaxGhCommits
          /\ ghParents' = Append(ghParents, call.base)
          /\ ghPush' = [call EXCEPT !.created = Len(ghParents) + 1,
                                    !.pc = "update_ref"]
       \/ /\ \E error \in GhRequestErrors : ghPush' = GhThrow(call, error)
          /\ UNCHANGED ghParents
    /\ UNCHANGED <<config, concVars, probeVars, remote, cache, callVars, localVars,
                   ghHead, ghWasHead, ghPushes>>

\* await this.updateReference(branch, commitResponse.sha);
\* return { newCommitId: commitResponse.sha }
GhUpdateRef ==
    /\ ghPush.pc = "update_ref"
    /\ LET call == [ghPush EXCEPT !.requests = Append(@, "PATCH ref"),
                                  !.headAtUpdate = ghHead] IN
       \/ \* the server moves the ref
          /\ RefUpdateAccepted(call.created, ghHead)
          /\ ghHead' = call.created
          /\ ghWasHead' = ghWasHead \cup {call.created}
          /\ ghPush' = [call EXCEPT !.pc = "done", !.outcome = "pushed"]
       \/ \* the server refuses the update: response not ok
          /\ ~RefUpdateAccepted(call.created, ghHead)
          /\ ghPush' = GhThrow(call, "NetworkError")
          /\ UNCHANGED <<ghHead, ghWasHead>>
       \/ \* the request fails on its way
          /\ \E error \in GhRequestErrors : ghPush' = GhThrow(call, error)
          /\ UNCHANGED <<ghHead, ghWasHead>>
    /\ UNCHANGED <<config, concVars, probeVars, remote, cache, callVars, localVars,
                   ghParents, ghPushes>>

\* ------------------------------------------------------------ local ports
\* Snapshots and synced options a caller hands to save.
PortSnapshots ==
    { Snapshot(1, [schemas |-> <<>>, records |-> <<>>], "absent"),
      Snapshot(2, [schemas |-> <<"s1">>, records |-> <<>>], "absent"),
      Snapshot(3, [schemas |-> <<"s1">>, records |-> <<"r1">>], "absent") }

\* save(snapshot, { synced })
SaveArgs(snapshot, synced) == [snapshot |-> snapshot, synced |-> synced]

\* An invoked save or clear as logged: its arguments (a clear stores no
\* snapshot and no unsynced changes) and how many saves were suspended
\* when it was invoked.
Invoked(snapshot, synced) ==
    [snapshot |-> snapshot, synced |-> synced, pending |-> Len(saveQueue)]

\* A local port call is started.
PortCall ==
    /\ portCalls < MaxPortCalls
    /\ portCalls' = portCalls + 1

\* Variant of MemSave: the dirty flag is assigned before await
\* this.saveLock, the snapshot after it.
MemSaveFlagFirst ==
    /\ PortCall
    /\ \E snapshot \in PortSnapshots, synced \in BOOLEAN :
          /\ saveQueue' = Append(saveQueue, SaveArgs(snapshot, synced))
          /\ memLog' = Append(memLog, Invoked(snapshot, synced))
          /\ cache' = [cache EXCEPT !.hasUnsyncedChanges = ~synced]
    /\ UNCHANGED <<config, concVars, probeVars, remote, callVars, ghVars,
                   files, nodeCall, committed, loaded>>

\* MemoryLocalDatabase.save up to `await this.saveLock`: the lock is an
\* already resolved promise whenever it is read (it is created and resolved
\* within one synchronous stretch), so the rest of the call is queued behind
\* the continuations queued before it.
MemSave ==
    /\ PortCall
    /\ \E snapshot \in PortSnapshots, synced \in BOOLEAN :
          /\ saveQueue' = Append(saveQueue, SaveArgs(snapshot, synced))
          /\ memLog' = Append(memLog, Invoked(snapshot, synced))
    /\ UNCHANGED <<config, concVars, probeVars, remote, cache, callVars, ghVars,
                   files, nodeCall, committed, loaded>>

\* MemoryLocalDatabase.save after the await: this.snapshot =
\* structuredClone(snapshot); this.hasUnsyncedChanges = !options.synced;
\* resolveSave(), all without another await.
MemSaveResume ==
    /\ saveQueue # <<>>
    /\ LET call == Head(saveQueue) IN
          /\ cache' = LocalSave(call.snapshot, call.synced)
          /\ committed' = [committed EXCEPT !.memory =
                              [snapshot |-> call.snapshot,
                               hasUnsyncedChanges |-> ~call.synced]]
    /\ saveQueue' = Tail(saveQueue)
    /\ UNCHANGED <<config, concVars, probeVars, remote, callVars, ghVars,
                   memLog, files, nodeCall, loaded, portCalls>>

\* MemoryLocalDatabase.clear: no await, so it takes effect when called,
\* ahead of any save still suspended.
MemClear ==
    /\ PortCall
    /\ cache' = EmptyCache
    /\ committed' = [committed EXCEPT !.memory = EmptyCache]
    /\ memLog' = Append(memLog, Invoked(NoSnapshot, TRUE))
    /\ UNCHANGED <<config, concVars, probeVars, remote, callVars, ghVars,
                   saveQueue, files, nodeCall, loaded>>

\* MemoryLocalDatabase.load
MemLoad ==
    /\ PortCall
    /\ loaded' = [port |-> "memory", state |-> cache,
                  register |-> committed.memory]
    /\ UNCHANGED <<config, concVars, probeVars, remote, cache, callVars, ghVars,
                   saveQueue, memLog, files, nodeCall, committed>>

\* metadata.json: { hasUnsyncedChanges: !options.synced, ... }
NfMetadata(synced) == IF ~synced THEN "dirty" ELSE "clean"

\* NodeFileLocalDatabase.load with both reads succeeding: loadSnapshot()
\* (null when the file is missing) and loadHasUnsyncedChanges() (false when
\* the file is missing).
NfLoadState ==
    [snapshot |-> files.snapshot,
     hasUnsyncedChanges |-> files.metadata = "dirty"]

\* NodeFileLocalDatabase.save, first write: await this.saveSnapshot(snapshot)
NfSave ==
    /\ PortCall
    /\ nodeCall.pc = "idle"
    /\ \E snapshot \in PortSnapshots, synced \in BOOLEAN :
          LET call == [NoNodeCall EXCEPT !.name = "save", !.snapshot = snapshot,
                                         !.synced = synced, !.before = NfLoadState]
          IN \/ /\ files' = [files EXCEPT !.snapshot = snapshot]
                /\ nodeCall' = [call EXCEPT !.pc = "save_metadata"]
             \/ /\ nodeCall' = [call EXCEPT !.outcome = "threw"]
                /\ UNCHANGED files
    /\ UNCHANGED <<config, concVars, probeVars, remote, cache, callVars, ghVars,
                   saveQueue, memLog, committed, loaded>>

\* NodeFileLocalDatabase.save, second write: await this.saveMetadata(options)
NfSaveMetadata ==
    /\ nodeCall.pc = "save_metadata"
    /\ \/ /\ files' = [files EXCEPT !.metadata = NfMetadata(nodeCall.synced)]
          /\ committed' = [committed EXCEPT !.nodeFile =
                              [snapshot |-> nodeCall.snapshot,
                               hasUnsyncedChanges |-> ~nodeCall.synced]]
          /\ nodeCall' = [nodeCall EXCEPT !.pc = "idle", !.outcome = "resolved"]
       \/ /\ nodeCall' = [nodeCall EXCEPT !.pc = "idle", !.outcome = "threw"]
          /\ UNCHANGED <<files, committed>>
    /\ UNCHANGED <<config, concVars, probeVars, remote, cache, callVars, ghVars,
                   saveQueue, memLog, loaded, portCalls>>

\* NodeFileLocalDatabase.clear: unlink the snapshot file, then the metadata
\* file; an unlink error other than ENOENT is thrown.
NfClear ==
    /\ PortCall
    /\ nodeCall.pc = "idle"
    /\ LET call == [NoNodeCall EXCEPT !.name = "clear", !.before = NfLoadState] IN
       \/ /\ files' = NoFiles
          /\ committed' = [committed EXCEPT !.nodeFile = EmptyCache]
          /\ nodeCall' = [call EXCEPT !.outcome = "resolved"]
       \/ \* the first unlink throws
          /\ nodeCall' = [call EXCEPT !.outcome = "threw"]
          /\ UNCHANGED <<files, committed>>
       \/ \* the second unlink throws
          /\ files' = [files EXCEPT !.snapshot = NoSnapshot]
          /\ nodeCall' = [call EXCEPT !.outcome = "threw"]
          /\ UNCHANGED committed
    /\ UNCHANGED <<config, concVars, probeVars, remote, cache, callVars, ghVars,
                   saveQueue, memLog, loaded>>

\* NodeFileLocalDatabase.load; a failing read of the snapshot file is
\* thrown, a failing read of the metadata file counts as "no unsynced
\* changes".
NfLoad ==
    /\ PortCall
    /\ nodeCall.pc = "idle"
    /\ LET call == [NoNodeCall EXCEPT !.name = "load", !.before = NfLoadState] IN
       \/ /\ loaded' = [port |-> "nodeFile", state |-> NfLoadState,
                        register |-> committed.nodeFile]
          /\ nodeCall' = [call EXCEPT !.outcome = "resolved"]
       \/ /\ nodeCall' = [call EXCEPT !.outcome = "threw"]
          /\ UNCHANGED loaded
       \/ /\ loaded' = [port |-> "nodeFile",
                        state |-> [NfLoadState EXCEPT !.hasUnsyncedChanges = FALSE],
                        register |-> committed.nodeFile]
          /\ nodeCall' = [call EXCEPT !.outcome = "resolved"]
    /\ UNCHANGED <<config, concVars, probeVars, remote, cache, callVars, ghVars,
                   saveQueue, memLog, files, committed>>

\* The adapters on their own: the service as built with default options.
InitAdapters ==
    /\ Constructed(Omitted, Omitted)
    /\ NothingCalled

NextGitHub ==
    \/ GhOtherWriter
    \/ GhPushSnapshot
    \/ GhGetHead
    \/ GhCreateTree
    \/ GhCreateCommit
    \/ GhUpdateRef

SpecGitHub == InitAdapters /\ [][NextGitHub]_vars

\* ------------------------------------------------------------------- Next
Next ==
    \/ AdvanceRemote
    \/ AppEdit
    \/ LoadInitial
    \/ LiInit
    \/ LiLoad
    \/ LiFetchFirst
    \/ LiSaveFirst
    \/ LiFetch
    \/ LiSaveReset
    \/ Sync
    \/ SyncFetch
    \/ SyncSaveReset
    \/ SyncPush
    \/ SyncDelay
    \/ SyncSavePushed
    \/ SyncFetchLatest
    \/ SyncSaveLatest
    \/ CanSync
    \/ CsPing
    \/ Destroy
    \/ DestroyAll

Spec == Init /\ [][Next]_vars

\* The retry policy on its own: sync calls only, under the wider options.
NextRetry ==
    \/ Sync
    \/ SyncFetch
    \/ SyncSaveReset
    \/ SyncPush
    \/ SyncDelay
    \/ SyncSavePushed
    \/ SyncFetchLatest
    \/ SyncSaveLatest

SpecRetry == InitRetry /\ [][NextRetry]_vars

\* Every port call and every delay sync awaits completes (resolves or
\* rejects): a step of sync that can be taken is eventually taken.
PortCallsComplete ==
    /\ WF_vars(SyncFetch)
    /\ WF_vars(SyncSaveReset)
    /\ WF_vars(SyncPush)
    /\ WF_vars(SyncDelay)
    /\ WF_vars(SyncSavePushed)
    /\ WF_vars(SyncFetchLatest)
    /\ WF_vars(SyncSaveLatest)

\* sync calls on their own, with ports that always answer.
SpecTermination == Init /\ [][NextRetry]_vars /\ PortCallsComplete

TypeOK ==
    /\ maxRetries \in 1..DefaultMaxRetries
    /\ teardown = NoTeardown => currentCommitId = Len(snapshots)
    /\ Len(snapshots) <= MaxCommits
    /\ calls <= MaxCalls
    /\ pushCalls <= maxRetries

\* The local ports on their own.
NextLocal ==
    \/ MemSave
    \/ MemSaveResume
    \/ MemClear
    \/ MemLoad
    \/ NfSave
    \/ NfSaveMetadata
    \/ NfClear
    \/ NfLoad

SpecLocal == InitAdapters /\ [][NextLocal]_vars

\* ------------------------------------------------- two overlapping syncs
\* sync is an async method of one service object: a second call may start
\* while the first is suspended in a port call.  Each caller runs the steps
\* of sync on its own locals; the cache and the remote are shared.

\* throw new SyncError(`Sync failed: ...`, "SYNC_FAILED", cause, "sync")
SyncFailed(cause) ==
    [class |-> "SyncError", phase |-> "sync", code |-> "SYNC_FAILED", cause |-> cause]

\* Another writer committed to the remote before either call began.
CcPriorWriter ==
    /\ \A p \in Callers : syncs[p].pc = "idle"
    /\ AdvanceRemote

\* sync(localSnapshot) by caller p.
CcSync(p) ==
    /\ syncs[p].pc = "idle"
    /\ \E arg \in SyncArguments :
          syncs' = [syncs EXCEPT ![p] = [NoSync EXCEPT !.pc = "sync_fetch",
                                                       !.localSnapshot = arg]]
    /\ UNCHANGED <<config, adapterVars, probeVars, callVars, remote, cache, accepted>>

\* const remoteSnapshot = await remote.fetchSnapshot();
\* if (remoteSnapshot.commitId !== localSnapshot.commitId) ...
CcFetch(p) ==
    LET me == syncs[p]
        advanced == RemoteAdvanced(FetchSnapshot, me.localSnapshot) IN
    /\ me.pc = "sync_fetch"
    /\ \/ syncs' = [syncs EXCEPT ![p] =
                       [me EXCEPT !.remoteSnapshot = FetchSnapshot,
                                  !.attempt = IF advanced THEN 0 ELSE 1,
                                  !.pc = IF advanced THEN "sync_save_reset"
                                                     ELSE "sync_push"]]
       \/ syncs' = [syncs EXCEPT ![p] =
                       [me EXCEPT !.thrown = SyncFailed("remote.fetchSnapshot failed"),
                                  !.pc = "done"]]
    /\ UNCHANGED <<config, adapterVars, probeVars, callVars, remote, cache, accepted>>

\* await local.save(remoteSnapshot, { synced: true, reason: "reset" });
\* return { status: "resetToRemote", snapshot: remoteSnapshot, ... }
CcSaveReset(p) ==
    LET me == syncs[p] IN
    /\ me.pc = "sync_save_reset"
    /\ \/ /\ cache' = LocalSave(me.remoteSnapshot, TRUE)
          /\ syncs' = [syncs EXCEPT ![p] =
                          [me EXCEPT !.result = ResetToRemoteResult(
                                                   me.remoteSnapshot, me.localSnapshot,
                                                   "Remote advanced since last sync"),
                                     !.pc = "done"]]
       \/ /\ syncs' = [syncs EXCEPT ![p] =
                          [me EXCEPT !.thrown = SyncFailed("local.save failed"),
                                     !.pc = "done"]]
          /\ UNCHANGED cache
    /\ UNCHANGED <<config, adapterVars, probeVars, callVars, remote, accepted>>

\* One invocation of operation() inside withRetry by caller p:
\* remote.pushSnapshot(localSnapshot.commitId, { schemas, records, meta })
CcPush(p) ==
    LET me == syncs[p] IN
    /\ me.pc = "sync_push"
    /\ \/ /\ PushAccepted(me.localSnapshot.commitId)
          /\ Len(snapshots) < MaxCommits
          /\ snapshots' = Append(snapshots,
                                 [me.localSnapshot EXCEPT !.commitId = FreshCommitId])
          /\ currentCommitId' = FreshCommitId
          /\ accepted' = Append(accepted, [caller |-> p,
                                           base |-> me.localSnapshot.commitId,
                                           head |-> currentCommitId])
          /\ syncs' = [syncs EXCEPT ![p] =
                          [me EXCEPT !.pushCalls = @ + 1,
                                     !.newCommitId = FreshCommitId,
                                     !.pc = "sync_save_pushed"]]
       \/ /\ \E error \in PushErrors :
                /\ ~PushAccepted(me.localSnapshot.commitId) => error = "OutOfDateError"
                /\ syncs' = [syncs EXCEPT ![p] =
                                [me EXCEPT !.pushCalls = @ + 1,
                                           !.pushError = error,
                                           !.pc = AfterPushFailure(error, me.attempt)]]
          /\ UNCHANGED <<remote, accepted>>
    /\ UNCHANGED <<config, adapterVars, probeVars, callVars, cache>>

\* await this.delay(retryDelay * attempt); return this.withRetry(operation,
\* operationName, attempt + 1)
CcDelay(p) ==
    LET me == syncs[p] IN
    /\ me.pc = "sync_delay"
    /\ syncs' = [syncs EXCEPT ![p] = [me EXCEPT !.attempt = @ + 1,
                                                !.pc = "sync_push"]]
    /\ UNCHANGED <<config, adapterVars, probeVars, callVars, remote, cache, accepted>>

\* await local.save(newSnapshot, { synced: true, reason: "sync" });
\* return { status: "pushed", ... }; a failing save lands in catch (pushError).
CcSavePushed(p) ==
    LET me == syncs[p]
        newSnapshot == NewSnapshot(me.localSnapshot, me.newCommitId) IN
    /\ me.pc = "sync_save_pushed"
    /\ \/ /\ cache' = LocalSave(newSnapshot, TRUE)
          /\ syncs' = [syncs EXCEPT ![p] =
                          [me EXCEPT !.result = PushedResult(newSnapshot, me.localSnapshot),
                                     !.pc = "done"]]
       \/ /\ syncs' = [syncs EXCEPT ![p] =
                          [me EXCEPT !.pushError = "local.save failed",
                                     !.pc = "sync_fetch_latest"]]
          /\ UNCHANGED cache
    /\ UNCHANGED <<config, adapterVars, probeVars, callVars, remote, accepted>>

\* catch (pushError): const latestRemote = await remote.fetchSnapshot();
CcFetchLatest(p) ==
    LET me == syncs[p] IN
    /\ me.pc = "sync_fetch_latest"
    /\ \/ syncs' = [syncs EXCEPT ![p] = [me EXCEPT !.latestRemote = FetchSnapshot,
                                                   !.pc = "sync_save_latest"]]
       \/ syncs' = [syncs EXCEPT ![p] =
                       [me EXCEPT !.thrown = SyncFailed("remote.fetchSnapshot failed"),
                                  !.pc = "done"]]
    /\ UNCHANGED <<config, adapterVars, probeVars, callVars, remote, cache, accepted>>

\* await local.save(latestRemote, { synced: true, reason: "reset" });
\* return { status: "resetToRemote", snapshot: latestRemote, ... }
CcSaveLatest(p) ==
    LET me == syncs[p] IN
    /\ me.pc = "sync_save_latest"
    /\ \/ /\ cache' = LocalSave(me.latestRemote, TRUE)
          /\ syncs' = [syncs EXCEPT ![p] =
                          [me EXCEPT !.result = ResetToRemoteResult(
                                                   me.latestRemote, me.localSnapshot,
                                                   PushFailedReason(me.pushError)),
                                     !.pc = "done"]]
       \/ /\ syncs' = [syncs EXCEPT ![p] =
                          [me EXCEPT !.thrown = SyncFailed("local.save failed"),
                                     !.pc = "done"]]
          /\ UNCHANGED cache
    /\ UNCHANGED <<config, adapterVars, probeVars, callVars, remote, accepted>>

\* The service with its defaults, nothing called yet.
InitConcurrent == Constructed(Omitted, Omitted) /\ NothingCalled

NextConcurrent ==
    \/ CcPriorWriter
    \/ \E p \in Callers : CcSync(p)
    \/ \E p \in Callers : CcFetch(p)
    \/ \E p \in Callers : CcSaveReset(p)
    \/ \E p \in Callers : CcPush(p)
    \/ \E p \in Callers : CcDelay(p)
    \/ \E p \in Callers : CcSavePushed(p)
    \/ \E p \in Callers : CcFetchLatest(p)
    \/ \E p \in Callers : CcSaveLatest(p)

SpecConcurrent == InitConcurrent /\ [][NextConcurrent]_vars

\* ======================================================= checked properties
\* The i-th local.save of the running call completed.
SaveCompleted(i) == Len(saves) >= i /\ saves[i].ok

\* The cache loads to (snapshot, hasUnsyncedChanges = false).
LoadsClean(snapshot) ==
    cache = [snapshot |-> snapshot, hasUnsyncedChanges |-> FALSE]

\* sync's first fetch returned a commit id other than the caller's.
SyncDiverged ==
    /\ op = "sync"
    /\ remoteSnapshot # NoSnapshot
    /\ remoteSnapshot.commitId # localSnapshot.commitId

\* sync's first fetch returned the caller's commit id.
SyncMatched ==
    /\ op = "sync"
    /\ remoteSnapshot # NoSnapshot
    /\ remoteSnapshot.commitId = localSnapshot.commitId

\* The push of the running sync has finally failed: every invocation threw
\* and withRetry has rethrown.
PushFinallyFailed ==
    /\ SyncMatched
    /\ newCommitId = 0
    /\ pushErrors # <<>>
    /\ pc \notin {"sync_push", "sync_delay"}

\* C1 -- Reset-on-divergence: when sync's first fetch returns a commit id
\* different from S.commitId and the cache accepts the save, sync returns
\* 'resetToRemote' carrying exactly the fetched snapshot (which is what the
\* remote stores for that commit), meta.previousCommitId = S.commitId, and
\* the cache loads to (that snapshot, hasUnsyncedChanges = false).
C1_ResetOnDivergence ==
    (pc = "done" /\ SyncDiverged /\ SaveCompleted(1)) =>
        /\ thrown = NoThrow
        /\ result.status = "resetToRemote"
        /\ result.snapshot = remoteSnapshot
        /\ result.snapshot = snapshots[remoteSnapshot.commitId]
        /\ result.previousCommitId = localSnapshot.commitId
        /\ LoadsClean(remoteSnapshot)

C1_Witness ==
    /\ pc = "done"
    /\ SyncDiverged
    /\ result.status = "resetToRemote"
    /\ result.snapshot.schemas # localSnapshot.schemas
    /\ LoadsClean(remoteSnapshot)

\* C2 -- When sync's first fetch returns a commit id different from
\* S.commitId, the call never invokes pushSnapshot and the remote applies
\* no push of this call.
C2_NoPushOnDivergence ==
    SyncDiverged => (pushCalls = 0 /\ pushErrors = <<>> /\ appliedPushes = 0 /\ newCommitId = 0)

C2_Witness ==
    /\ pc = "done"
    /\ SyncDiverged
    /\ result.status = "resetToRemote"
    /\ pushCalls = 0
    /\ currentCommitId = remoteSnapshot.commitId

\* C3 -- Successful push: when the first fetch matches S.commitId, the push
\* returns newCommitId and the cache accepts the save, sync returns 'pushed'
\* with snapshot.commitId = newCommitId, S's schemas and records,
\* meta.previousCommitId = S.commitId and
\* meta.changesPushed = |S.schemas| + |S.records|, and the cache loads to
\* (that snapshot, hasUnsyncedChanges = false).
C3_SuccessfulPush ==
    (pc = "done" /\ SyncMatched /\ newCommitId # 0 /\ SaveCompleted(1)) =>
        /\ thrown = NoThrow
        /\ result.status = "pushed"
        /\ result.snapshot.commitId = newCommitId
        /\ newCommitId # localSnapshot.commitId
        /\ result.snapshot.schemas = localSnapshot.schemas
        /\ result.snapshot.records = localSnapshot.records
        /\ result.previousCommitId = localSnapshot.commitId
        /\ result.changesPushed = Len(localSnapshot.schemas) + Len(localSnapshot.records)
        /\ LoadsClean(result.snapshot)
        /\ snapshots[newCommitId].schemas = localSnapshot.schemas
        /\ snapshots[newCommitId].records = localSnapshot.records

C3_Witness ==
    /\ pc = "done"
    /\ result.status = "pushed"
    /\ result.changesPushed = 2
    /\ LoadsClean(result.snapshot)

\* C4 -- Push-failure fallback: when the versions match but the push finally
\* fails (OutOfDateError at once, or any other error once the attempts are
\* used up), sync fetches the remote a second time; when that fetch returns
\* R2 and the cache accepts the save, R2 is saved with synced = true and
\* sync returns 'resetToRemote' with snapshot = R2, meta.previousCommitId =
\* S.commitId and a reason naming the push failure.  The push failure is
\* never what the call throws.
C4_PushFailureFallback ==
    /\ (PushFinallyFailed /\ pc \in {"sync_save_latest", "done"} /\ latestRemote # NoSnapshot) =>
           /\ fetchCalls = 2
           /\ latestRemote = snapshots[latestRemote.commitId]
    /\ (PushFinallyFailed /\ pc = "done") =>
           /\ fetchCalls = 2
           /\ thrown.cause \notin PushErrors
           /\ thrown # NoThrow => thrown.cause \in {"remote.fetchSnapshot failed", "local.save failed"}
    /\ (PushFinallyFailed /\ pc = "done" /\ SaveCompleted(1)) =>
           /\ thrown = NoThrow
           /\ saves = << [snapshot |-> latestRemote, synced |-> TRUE, ok |-> TRUE] >>
           /\ result.status = "resetToRemote"
           /\ result.snapshot = latestRemote
           /\ result.previousCommitId = localSnapshot.commitId
           /\ result.reason = "Push failed: " \o pushErrors[Len(pushErrors)]
           /\ LoadsClean(latestRemote)

C4_Witness ==
    /\ pc = "done"
    /\ PushFinallyFailed
    /\ pushErrors[Len(pushErrors)] = "NetworkError"
    /\ result.status = "resetToRemote"
    /\ latestRemote.commitId # remoteSnapshot.commitId
    /\ LoadsClean(latestRemote)

\* C5 -- OutOfDate is never retried: when the first pushSnapshot invocation
\* throws OutOfDateError, the call makes exactly one pushSnapshot invocation
\* and no delay, whatever maxRetries is, and goes on to the fallback.
C5_OutOfDateNeverRetried ==
    (op = "sync" /\ pushErrors # <<>> /\ pushErrors[1] = "OutOfDateError") =>
        /\ pushCalls = 1
        /\ Len(pushErrors) = 1
        /\ delays = <<>>
        /\ pc \notin {"sync_push", "sync_delay", "sync_save_pushed"}
        /\ pc = "done" /\ thrown = NoThrow => result.status = "resetToRemote"

C5_Witness ==
    /\ pc = "done"
    /\ maxRetries = DefaultMaxRetries
    /\ pushErrors = << "OutOfDateError" >>
    /\ pushCalls = 1
    /\ result.status = "resetToRemote"

C7_RetryUntilSuccess ==
    ( /\ pc = "done"
      /\ SyncMatched
      /\ thrown = NoThrow
      /\ Len(pushErrors) >= maxRetries
      /\ \A i \in 1..maxRetries : pushErrors[i] = "NetworkError"
      /\ currentCommitId = localSnapshot.commitId
      /\ Len(snapshots) < MaxCommits ) =>
        /\ pushCalls = maxRetries + 1
        /\ result.status = "pushed"

\* C8 -- First-run bootstrap: with an empty cache, when the remote fetch
\* succeeds and the cache accepts the save, loadInitial returns the fetched
\* remote snapshot and the cache loads to
\* (that snapshot, hasUnsyncedChanges = false).
C8_FirstRunBootstrap ==
    ( /\ pc = "done"
      /\ op = "loadInitial"
      /\ cacheAtCall.snapshot = NoSnapshot
      /\ remoteSnapshot # NoSnapshot
      /\ SaveCompleted(1) ) =>
        /\ thrown = NoThrow
        /\ result.status = "returned"
        /\ result.snapshot = remoteSnapshot
        /\ result.snapshot = snapshots[remoteSnapshot.commitId]
        /\ saves = << [snapshot |-> remoteSnapshot, synced |-> TRUE, ok |-> TRUE] >>
        /\ LoadsClean(remoteSnapshot)

C8_Witness ==
    /\ pc = "done"
    /\ op = "loadInitial"
    /\ cacheAtCall = EmptyCache
    /\ result.status = "returned"
    /\ result.snapshot.commitId = currentCommitId
    /\ LoadsClean(result.snapshot)

\* C9 -- Offline fallback: with a non-empty cache (dirty or clean), when the
\* remote fetch throws, loadInitial returns the cached snapshot, throws
\* nothing, issues no local.save, and leaves the cache record as it was.
C9_OfflineFallback ==
    ( /\ pc = "done"
      /\ op = "loadInitial"
      /\ cacheAtCall.snapshot # NoSnapshot
      /\ fetchCalls = 1
      /\ remoteSnapshot = NoSnapshot ) =>
        /\ thrown = NoThrow
        /\ result.status = "returned"
        /\ result.snapshot = cacheAtCall.snapshot
        /\ saves = <<>>
        /\ cache = cacheAtCall

C9_Witness ==
    /\ pc = "done"
    /\ op = "loadInitial"
    /\ cacheAtCall.snapshot # NoSnapshot
    /\ cacheAtCall.hasUnsyncedChanges
    /\ fetchCalls = 1
    /\ remoteSnapshot = NoSnapshot
    /\ result.snapshot = cacheAtCall.snapshot

\* C10 -- loadInitial adopts a newer remote: with a non-empty cache (dirty
\* or clean), when the fetch succeeds with a commit id other than the cached
\* one and the cache accepts the save, loadInitial saves the remote snapshot
\* with synced = true and returns it; the cache loads to
\* (remote, hasUnsyncedChanges = false), cached unsynced edits are gone.
C10_AdoptsNewerRemote ==
    ( /\ pc = "done"
      /\ op = "loadInitial"
      /\ cacheAtCall.snapshot # NoSnapshot
      /\ remoteSnapshot # NoSnapshot
      /\ remoteSnapshot.commitId # cacheAtCall.snapshot.commitId ) =>
        /\ thrown = NoThrow
        /\ Len(saves) = 1
        /\ saves[1].snapshot = remoteSnapshot
        /\ saves[1].synced
        /\ saves[1].ok =>
              /\ result.status = "returned"
              /\ result.snapshot = remoteSnapshot
              /\ LoadsClean(remoteSnapshot)

C10_Witness ==
    /\ pc = "done"
    /\ op = "loadInitial"
    /\ cacheAtCall.snapshot # NoSnapshot
    /\ cacheAtCall.hasUnsyncedChanges
    /\ cacheAtCall.snapshot.schemas # remoteSnapshot.schemas
    /\ remoteSnapshot.commitId # cacheAtCall.snapshot.commitId
    /\ result.snapshot = remoteSnapshot
    /\ LoadsClean(remoteSnapshot)

\* C11 -- loadInitial with matching versions: with a non-empty cache, when
\* the fetch succeeds with the cached commit id, loadInitial returns the
\* cached snapshot (not the fetched one), issues no local.save and no
\* pushSnapshot, and leaves the cache record, dirty flag included, as it was.
C11_MatchingVersionsKeepCache ==
    ( /\ pc = "done"
      /\ op = "loadInitial"
      /\ cacheAtCall.snapshot # NoSnapshot
      /\ remoteSnapshot # NoSnapshot
      /\ remoteSnapshot.commitId = cacheAtCall.snapshot.commitId ) =>
        /\ thrown = NoThrow
        /\ result.status = "returned"
        /\ result.snapshot = cacheAtCall.snapshot
        /\ saves = <<>>
        /\ pushCalls = 0
        /\ appliedPushes = 0
        /\ fetchCalls = 1
        /\ cache = cacheAtCall

C11_Witness ==
    /\ pc = "done"
    /\ op = "loadInitial"
    /\ cacheAtCall.hasUnsyncedChanges
    /\ remoteSnapshot # NoSnapshot
    /\ remoteSnapshot.commitId = cacheAtCall.snapshot.commitId
    /\ remoteSnapshot.schemas # cacheAtCall.snapshot.schemas
    /\ result.snapshot = cacheAtCall.snapshot
    /\ cache = cacheAtCall

\* C12 -- First-run failure is fatal: with an empty cache, when the remote
\* fetch of loadInitial fails, loadInitial throws a SyncError with syncPhase
\* 'initial_load', returns nothing, issues no local.save, and the cache
\* stays empty.
C12_FirstRunFailureFatal ==
    ( /\ pc = "done"
      /\ op = "loadInitial"
      /\ cacheAtCall.snapshot = NoSnapshot
      /\ fetchCalls = 1
      /\ remoteSnapshot = NoSnapshot ) =>
        /\ thrown.phase = "initial_load"
        /\ thrown.cause = "remote.fetchSnapshot failed"
        /\ result = NoResult
        /\ saves = <<>>
        /\ cache = EmptyCache

C12_Witness ==
    /\ pc = "done"
    /\ op = "loadInitial"
    /\ cacheAtCall = EmptyCache
    /\ fetchCalls = 1
    /\ remoteSnapshot = NoSnapshot
    /\ thrown.phase = "initial_load"
    /\ cache = EmptyCache

\* C13 -- When the first fetchSnapshot of sync fails, sync throws a
\* SyncError with syncPhase 'sync' and performs no pushSnapshot, no second
\* fetch and no local.save; the cache is as it was and the remote has
\* applied nothing of this call.
C13_FirstFetchFailureFatal ==
    ( /\ pc = "done"
      /\ op = "sync"
      /\ remoteSnapshot = NoSnapshot ) =>
        /\ thrown.phase = "sync"
        /\ thrown.cause = "remote.fetchSnapshot failed"
        /\ result = NoResult
        /\ fetchCalls = 1
        /\ pushCalls = 0
        /\ appliedPushes = 0
        /\ saves = <<>>
        /\ cache = cacheAtCall

C13_Witness ==
    /\ pc = "done"
    /\ op = "sync"
    /\ remoteSnapshot = NoSnapshot
    /\ cacheAtCall.snapshot # NoSnapshot
    /\ thrown.phase = "sync"
    /\ fetchCalls = 1

\* C14 -- The retry policy covers pushSnapshot only: every delay follows a
\* failed pushSnapshot invocation, every fetchSnapshot step is attempted
\* once (at most 1 fetch in loadInitial, at most 2 in sync), and when the
\* fallback fetch after a failed push fails too, sync throws SyncError with
\* syncPhase 'sync' after exactly 2 fetches and leaves the cache as it was.
C14_OnlyPushIsRetried ==
    /\ op = "loadInitial" => (fetchCalls <= 1 /\ delays = <<>>)
    /\ op = "sync" => (fetchCalls <= 2 /\ Len(delays) < Len(pushErrors) + 1
                                       /\ (pushErrors = <<>> => delays = <<>>))
    /\ (pc = "sync_fetch_latest") => fetchCalls = 1
    /\ (pc = "done" /\ PushFinallyFailed /\ latestRemote = NoSnapshot) =>
           /\ fetchCalls = 2
           /\ thrown.phase = "sync"
           /\ thrown.cause = "remote.fetchSnapshot failed"
           /\ result = NoResult
           /\ saves = <<>>
           /\ cache = cacheAtCall

C14_Witness ==
    /\ pc = "done"
    /\ PushFinallyFailed
    /\ Len(pushErrors) = 2
    /\ latestRemote = NoSnapshot
    /\ fetchCalls = 2
    /\ thrown.phase = "sync"

\* C15 -- In loadInitial every failure of the local cache (load or save
\* throwing) reaches the caller as a SyncError with syncPhase
\* 'initial_load': a call in which a local.save threw has thrown and has
\* returned no snapshot.
C15_LocalFailureSurfaces ==
    ( /\ pc = "done"
      /\ op = "loadInitial"
      /\ \E i \in 1..Len(saves) : ~saves[i].ok ) =>
        /\ thrown.phase = "initial_load"
        /\ result = NoResult

\* C16 -- In sync a failing local.save is fatal and not retried: when
\* pushSnapshot has succeeded and the following local.save throws, sync
\* throws SyncError with syncPhase 'sync' and makes no further
\* fetchSnapshot call and no second local.save call.
C16_SaveFailureFatal ==
    ( /\ pc = "done"
      /\ op = "sync"
      /\ newCommitId # 0
      /\ saves # <<>>
      /\ ~saves[1].ok ) =>
        /\ thrown.phase = "sync"
        /\ fetchCalls = 1
        /\ Len(saves) = 1

C18_CanSyncChecksLocal ==
    (pc = "done" /\ op = "canSync" /\ ~localUsable) => result.status = "false"

\* C19 -- destroy invokes destroy on the local and on the remote port even
\* when one of them fails, and throws a SyncError with syncPhase 'destroy'
\* exactly when one of them failed.
C19_DestroyReleasesBoth ==
    (pc = "done" /\ op = "destroy") =>
        /\ teardown.invoked = {"local", "remote"}
        /\ teardown.failed # {} <=> thrown.phase = "destroy"
        /\ teardown.failed = {} <=> thrown = NoThrow
        /\ "local" \notin teardown.failed => cache = EmptyCache
        /\ "local" \in teardown.failed => cache = cacheAtCall

C19_Witness ==
    /\ pc = "done"
    /\ op = "destroy"
    /\ teardown.failed = {"local"}
    /\ "remote" \in teardown.invoked
    /\ snapshots = <<>>
    /\ cache.snapshot # NoSnapshot
    /\ thrown.phase = "destroy"

\* C20 -- Idempotence of matching-version sync: when sync(S) returned
\* 'pushed' with snapshot S' and the next call is sync(S') with the remote
\* still where that push left it, no pushSnapshot invocation failing and the
\* cache accepting the save, the second sync returns 'pushed' again (no
\* error, no reset) and its result carries a commit id other than
\* S'.commitId.
C20_PushedAgain ==
    ( /\ pc = "done"
      /\ op = "sync"
      /\ prevPushed # NoPush
      /\ localSnapshot = prevPushed.snapshot
      /\ remoteSnapshot # NoSnapshot
      /\ remoteSnapshot.commitId = prevPushed.newCommitId
      /\ pushErrors = <<>>
      /\ SaveCompleted(1) ) =>
        /\ thrown = NoThrow
        /\ result.status = "pushed"
        /\ result.snapshot.commitId # localSnapshot.commitId
        /\ result.snapshot.commitId # prevPushed.newCommitId
        /\ result.previousCommitId = prevPushed.newCommitId
        /\ LoadsClean(result.snapshot)

C20_Witness ==
    /\ pc = "done"
    /\ op = "sync"
    /\ prevPushed # NoPush
    /\ localSnapshot = prevPushed.snapshot
    /\ result.status = "pushed"
    /\ result.previousCommitId = prevPushed.newCommitId
    /\ result.snapshot.commitId = currentCommitId
    /\ Len(snapshots) = 3

\* Commit ids the remote has handed to the running call: the commitId of a
\* fetched snapshot or the newCommitId of an applied push.
RemoteIssued ==
    ( {remoteSnapshot.commitId, latestRemote.commitId, newCommitId} ) \ {0}

\* C21 -- versionId is never invented locally: the commitId of every
\* snapshot loadInitial or sync hands to local.save, and of every snapshot
\* they return, is one the remote returned to that call from fetchSnapshot
\* or as newCommitId from pushSnapshot or, where loadInitial returns the
\* cached snapshot, the commitId the cache already held.
C21_CommitIdFromRemote ==
    op \in {"loadInitial", "sync"} =>
        /\ \A i \in 1..Len(saves) : saves[i].snapshot.commitId \in RemoteIssued
        /\ (pc = "done" /\ result.snapshot # NoSnapshot) =>
              result.snapshot.commitId \in
                  RemoteIssued \cup
                  (IF op = "loadInitial" /\ cacheAtCall.snapshot # NoSnapshot
                      THEN {cacheAtCall.snapshot.commitId} ELSE {})

C21_Witness ==
    /\ pc = "done"
    /\ op = "sync"
    /\ result.status = "pushed"
    /\ Len(saves) = 1
    /\ saves[1].snapshot.commitId = newCommitId
    /\ result.snapshot.commitId = newCommitId
    /\ newCommitId # localSnapshot.commitId
    /\ newCommitId \notin {remoteSnapshot.commitId, cacheAtCall.snapshot.commitId}

\* C22 -- Clean means remote-identical: starting from an empty cache, after
\* any serialized sequence of loadInitial and sync calls, with other
\* writers advancing the remote and port calls failing between and during
\* them, a cached snapshot with hasUnsyncedChanges = false has the commitId,
\* schemas and records the remote holds for that commitId.  (The ports are
\* still alive: destroy has not been called.)
C22_CleanMeansRemoteIdentical ==
    ( /\ teardown = NoTeardown
      /\ cache.snapshot # NoSnapshot
      /\ ~cache.hasUnsyncedChanges ) =>
        /\ cache.snapshot.commitId \in 1..Len(snapshots)
        /\ cache.snapshot.schemas = snapshots[cache.snapshot.commitId].schemas
        /\ cache.snapshot.records = snapshots[cache.snapshot.commitId].records

C22_Witness ==
    /\ teardown = NoTeardown
    /\ pc = "done"
    /\ calls = 2
    /\ ~cache.hasUnsyncedChanges
    /\ cache.snapshot.records # <<>>
    /\ cache.snapshot.meta = "now"
    /\ cache.snapshot.commitId < currentCommitId
    /\ thrown # NoThrow

\* The local.save invocations of the running call that completed.
CompletedSaves == { i \in 1..Len(saves) : saves[i].ok }

\* C23 -- sync never produces 'upToDate': every sync call that returns has
\* status 'pushed' or 'resetToRemote' and has completed exactly one
\* successful local.save, with synced = true, of the snapshot it returns.
C23_SyncAlwaysTransfers ==
    (pc = "done" /\ op = "sync" /\ thrown = NoThrow) =>
        /\ result.status \in {"pushed", "resetToRemote"}
        /\ Cardinality(CompletedSaves) = 1
        /\ \A i \in CompletedSaves :
              /\ saves[i].synced
              /\ saves[i].snapshot = result.snapshot
              /\ i = Len(saves)
        /\ LoadsClean(result.snapshot)

\* A sync of contents the remote already holds at the caller's commit
\* still pushes; and a sync whose post-push save failed returns after a
\* second, successful save.
C23_Witness ==
    /\ pc = "done"
    /\ op = "sync"
    /\ thrown = NoThrow
    /\ result.status = "resetToRemote"
    /\ Len(saves) = 2
    /\ ~saves[1].ok
    /\ saves[2].ok
    /\ localSnapshot.schemas = remoteSnapshot.schemas
    /\ localSnapshot.records = remoteSnapshot.records
    /\ appliedPushes = 1

\* C26 -- Every local.save the orchestrator issues, in loadInitial and in
\* sync, comes after a successful remote.fetchSnapshot of the same call,
\* carries a complete snapshot (a commitId with its schemas and records)
\* and passes synced = true; the orchestrator never saves with
\* synced = false.
C26_SavesFollowFetch ==
    op \in {"loadInitial", "sync"} =>
        \A i \in 1..Len(saves) :
            /\ saves[i].synced
            /\ fetchCalls >= 1
            /\ remoteSnapshot # NoSnapshot
            /\ saves[i].snapshot # NoSnapshot
            /\ saves[i].snapshot.commitId >= 1
            /\ {"commitId", "schemas", "records"} \subseteq DOMAIN saves[i].snapshot

C26_Witness ==
    /\ pc = "done"
    /\ op = "sync"
    /\ pushErrors = <<"NetworkError">>
    /\ fetchCalls = 2
    /\ Len(saves) = 1
    /\ saves[1].synced
    /\ saves[1].snapshot = latestRemote
    /\ saves[1].snapshot.schemas # localSnapshot.schemas
    /\ cacheAtCall.hasUnsyncedChanges

\* Total time waited: the sum of the delay(ms) invocations.
RECURSIVE TotalDelay(_)
TotalDelay(ds) == IF ds = <<>> THEN 0 ELSE Head(ds) + TotalDelay(Tail(ds))

\* Every pushSnapshot invocation of the running call failed with an error
\* other than OutOfDateError.
AllAttemptsTransient ==
    /\ Len(pushErrors) = pushCalls
    /\ \A k \in 1..Len(pushErrors) : pushErrors[k] # "OutOfDateError"

\* C24 -- Linear backoff: attempt 1 of pushSnapshot runs without delay;
\* after the k-th failed attempt (k < maxRetries, error not OutOfDate) the
\* orchestrator waits exactly retryDelay * k before attempt k+1; no delay
\* follows the last attempt, so a push failing transiently on all
\* maxRetries attempts has waited
\* retryDelay * (1 + 2 + ... + (maxRetries - 1)) in total.
C24_LinearBackoff ==
    op = "sync" =>
        /\ pushCalls = 0 => delays = <<>>
        /\ pc = "sync_push" => Len(delays) = pushCalls
        /\ (pc # "sync_push" /\ pushCalls >= 1) => Len(delays) = pushCalls - 1
        /\ \A k \in 1..Len(delays) :
              /\ delays[k] = retryDelay * k
              /\ k < maxRetries
              /\ pushErrors[k] # "OutOfDateError"
        /\ (PushFinallyFailed /\ AllAttemptsTransient /\ pushCalls = maxRetries) =>
              /\ Len(delays) = maxRetries - 1
              /\ TotalDelay(delays) = retryDelay * ((maxRetries * (maxRetries - 1)) \div 2)

C24_Witness ==
    /\ pc = "done"
    /\ op = "sync"
    /\ maxRetries = 4
    /\ retryDelay = 7
    /\ PushFinallyFailed
    /\ AllAttemptsTransient
    /\ pushCalls = 4
    /\ delays = <<7, 14, 21>>
    /\ result.status = "resetToRemote"

\* C25 -- Configuration is honoured over its whole accepted range: for
\* every maxRetries >= 1 and every retryDelay >= 0 passed at construction,
\* retryDelay = 0 included, the retry policy uses exactly those values (the
\* attempts never exceed the given maxRetries, the k-th wait is the given
\* retryDelay * k), and the defaults 3 and 1000 are used only for an
\* omitted option.
C25_ConfigurationHonoured ==
    /\ options.maxRetries # Omitted =>
          /\ maxRetries = options.maxRetries
          /\ pushCalls <= options.maxRetries
    /\ options.retryDelay # Omitted =>
          \A k \in 1..Len(delays) : delays[k] = options.retryDelay * k
    /\ options.maxRetries = Omitted => maxRetries = DefaultMaxRetries
    /\ options.retryDelay = Omitted =>
          \A k \in 1..Len(delays) : delays[k] = DefaultRetryDelay * k

\* C27 -- GitHubRemoteDatabase.pushSnapshot is conditionally atomic.  If
\* the branch head it reads differs from baseCommitId it throws
\* OutOfDateError, as such, after the one GET of the ref and without any
\* tree, commit or ref-update request.  If another writer advances the
\* branch between the head check and the ref update, the candidate is not
\* applied: the branch moves only to a commit whose parent is the head at
\* the time of the ref update, so no commit the branch pointed at is ever
\* dropped from its history.  (The GitHub server refuses a PATCH of a ref
\* without force that is not a fast-forward.)
C27_ConditionalPush ==
    /\ (ghPush.seen # 0 /\ ghPush.seen # ghPush.base) =>
          /\ ghPush.pc = "done"
          /\ ghPush.outcome = "OutOfDateError"
          /\ ghPush.requests = <<"GET ref">>
          /\ ghPush.created = 0
    /\ ghPush.outcome = "OutOfDateError" => ghPush.seen # ghPush.base
    /\ (ghPush.headAtUpdate # 0 /\ ghPush.headAtUpdate # ghPush.base) =>
          /\ ghPush.outcome \notin {"pushed", "none"}
          /\ ghPush.created \notin ghWasHead
          /\ ghHead # ghPush.created
    /\ ghPush.outcome = "pushed" =>
          /\ ghPush.headAtUpdate = ghPush.base
          /\ ghParents[ghPush.created] = ghPush.headAtUpdate
    /\ \A c \in ghWasHead : IsAncestor(c, ghHead)

\* Another writer got in between the head check and the ref update.
C27_Witness ==
    /\ ghPush.pc = "done"
    /\ ghPush.seen = ghPush.base
    /\ ghPush.created # 0
    /\ ghPush.requests = <<"GET ref", "POST trees", "POST commits", "PATCH ref">>
    /\ ghPush.headAtUpdate # ghPush.base
    /\ ghPush.outcome = "NetworkError"
    /\ ghParents[ghHead] = ghPush.base
    /\ ghHead # ghPush.created

\* What load() is to return once a save with these arguments is the most
\* recent completed one.
Stored(call) ==
    [snapshot |-> call.snapshot, hasUnsyncedChanges |-> ~call.synced]

\* C28 -- LocalDatabase.save is atomic: when NodeFileLocalDatabase.save
\* throws, a following load() returns the snapshot and hasUnsyncedChanges
\* it returned before the save; a load never sees the new snapshot paired
\* with the previous dirty flag.
C28_SaveIsAtomic ==
    ( /\ nodeCall.name = "save"
      /\ nodeCall.pc = "idle"
      /\ nodeCall.outcome = "threw" ) => NfLoadState = nodeCall.before

\* C29 -- The local cache behaves as a single register: for
\* MemoryLocalDatabase and NodeFileLocalDatabase load() returns
\* (null, false) before any save and after clear(), and otherwise the
\* snapshot of the most recent completed save with hasUnsyncedChanges =
\* not synced of that save, for any sequence of save, clear and load.
C29_SingleRegister ==
    loaded.port # "none" => loaded.state = loaded.register

\* The save or clear invoked last on the MemoryLocalDatabase.
LastInvoked == memLog[Len(memLog)]

\* C30 -- Concurrent saves on MemoryLocalDatabase are applied in
\* invocation order: when several save calls are started without awaiting
\* one another, once all have resolved the database holds (and load()
\* returns) the snapshot and dirty flag of the save invoked last; and it
\* never holds one save's snapshot with another save's flag.
C30_LastInvokedSaveWins ==
    /\ ( /\ saveQueue = <<>>
         /\ memLog # <<>>
         /\ LastInvoked.snapshot # NoSnapshot ) => cache = Stored(LastInvoked)
    /\ \/ cache = EmptyCache
       \/ \E i \in 1..Len(memLog) : cache = Stored(memLog[i])
    /\ loaded.port = "memory" =>
          \/ loaded.state = EmptyCache
          \/ \E i \in 1..Len(memLog) : loaded.state = Stored(memLog[i])

\* Three saves were started before the first one went on, and all three
\* have resolved.
C30_Witness ==
    /\ saveQueue = <<>>
    /\ Len(memLog) = 3
    /\ memLog[3].pending = 2
    /\ memLog[3].snapshot # NoSnapshot
    /\ memLog[2].snapshot # memLog[3].snapshot
    /\ memLog[2].synced # memLog[3].synced
    /\ cache = Stored(memLog[3])

\* C31 -- A SyncError, as thrown by the orchestrator from loadInitial, sync
\* and destroy, reports isRetryable() = true (and therefore
\* isRetryableError returns true for it).
C31_SyncErrorRetryable ==
    thrown # NoThrow =>
        /\ thrown.class = "SyncError"
        /\ IsRetryable(thrown.class)
        /\ IsRetryableError(thrown.class)

\* C32 -- sync changes the remote store only when it reports 'pushed': for
\* every sync call that returns 'resetToRemote' or throws SyncError this
\* call applied no push, under any combination of push, fetch and
\* local.save failures.
C32_RemoteChangedOnlyWhenPushed ==
    ( /\ pc = "done"
      /\ op = "sync"
      /\ (thrown # NoThrow \/ result.status = "resetToRemote") ) =>
        appliedPushes = 0

\* C33 -- State unchanged on error: with an atomic cache, if sync(S) throws
\* SyncError then the cache record (snapshot and hasUnsyncedChanges) is the
\* same as before the call, whichever step failed (first fetch, local.save,
\* or fallback fetch).
C33_CacheUnchangedOnError ==
    (pc = "done" /\ op = "sync" /\ thrown # NoThrow) => cache = cacheAtCall

\* sync threw because the fallback's local.save failed, with unsynced
\* changes in the cache.
C33_Witness ==
    /\ pc = "done"
    /\ op = "sync"
    /\ thrown.cause = "local.save failed"
    /\ latestRemote # NoSnapshot
    /\ saves # <<>>
    /\ cache.hasUnsyncedChanges
    /\ cache.snapshot # latestRemote

\* No writer other than the running call has changed the remote since the
\* call began: the remote holds the commit it held then, advanced only by
\* the pushes of this call.
NoOtherWriterSinceCall == currentCommitId = remoteAtCall + appliedPushes

\* C34 -- Serialized-sync postcondition: if a sync call returns ('pushed' or
\* 'resetToRemote') and no other writer changes the remote during the call,
\* then at return the remote's current commitId, the cache's commitId and
\* the returned snapshot's commitId are all equal and the cache has
\* hasUnsyncedChanges = false.
C34_SerializedPostcondition ==
    ( /\ pc = "done"
      /\ op = "sync"
      /\ result.status \in {"pushed", "resetToRemote"}
      /\ NoOtherWriterSinceCall ) =>
        /\ cache.snapshot.commitId = currentCommitId
        /\ result.snapshot.commitId = currentCommitId
        /\ ~cache.hasUnsyncedChanges

\* A sync that found unsynced changes in the cache pushed them and returned
\* with nobody else writing to the remote.
C34_Witness ==
    /\ pc = "done"
    /\ op = "sync"
    /\ result.status = "pushed"
    /\ NoOtherWriterSinceCall
    /\ cacheAtCall.hasUnsyncedChanges
    /\ currentCommitId # remoteAtCall

\* Both overlapping sync calls have returned a SyncResult.
BothReturned ==
    \A p \in Callers : syncs[p].pc = "done" /\ syncs[p].thrown = NoThrow

\* C35 -- Cache convergence under interleaving: for two sync calls (with
\* arbitrary base versions) running on the same cache and remote whose port
\* calls interleave arbitrarily, with no other writers, once both calls have
\* returned the cache's commitId equals the remote's current commitId and
\* hasUnsyncedChanges = false.
C35_CacheConverges ==
    BothReturned =>
        /\ cache.snapshot.commitId = currentCommitId
        /\ ~cache.hasUnsyncedChanges

\* C35, amended -- once both calls have returned the cache has
\* hasUnsyncedChanges = false and holds the snapshot one of the two calls
\* returned, which carries the id and the contents of a commit the remote
\* stores, the current one or an older one.
C35_CacheHoldsSomeRemoteCommit ==
    BothReturned =>
        /\ ~cache.hasUnsyncedChanges
        /\ \E p \in Callers : cache.snapshot = syncs[p].result.snapshot
        /\ cache.snapshot.commitId \in 1..currentCommitId
        /\ cache.snapshot.schemas = snapshots[cache.snapshot.commitId].schemas
        /\ cache.snapshot.records = snapshots[cache.snapshot.commitId].records

\* One call pushed and the other, which had fetched before that push,
\* saved last: both have returned and the cache is one commit behind.
C35_Witness ==
    /\ BothReturned
    /\ \E p \in Callers : syncs[p].result.status = "pushed"
    /\ cache.snapshot.commitId < currentCommitId

\* Both overlapping sync calls were made with the same base commitId.
SameBase ==
    /\ \A p \in Callers : syncs[p].pc # "idle"
    /\ \A p, q \in Callers :
          syncs[p].localSnapshot.commitId = syncs[q].localSnapshot.commitId

\* C36 -- No lost update under concurrent syncs: for two interleaved sync
\* calls with the same base commitId against a remote whose pushSnapshot is
\* conditionally atomic, at most one call returns 'pushed', the remote's
\* version advances at most once, and every accepted push had a base equal
\* to the remote's commitId at the moment it was applied.
C36_NoLostUpdate ==
    SameBase =>
        /\ Cardinality({p \in Callers : syncs[p].result.status = "pushed"}) <= 1
        /\ Len(accepted) <= 1
        /\ \A i \in 1..Len(accepted) : accepted[i].base = accepted[i].head

\* Both calls fetched the commit of their common base and both pushed: one
\* push was applied and that call returned 'pushed', the other was refused
\* as out of date and that call returned 'resetToRemote'.
C36_Witness ==
    /\ SameBase
    /\ \A p \in Callers : syncs[p].pc = "done" /\ syncs[p].pushCalls = 1
    /\ \E p, q \in Callers :
          /\ syncs[p].result.status = "pushed"
          /\ syncs[q].result.status = "resetToRemote"
          /\ syncs[q].pushError = "OutOfDateError"
          /\ syncs[q].result.snapshot.commitId = syncs[p].result.snapshot.commitId
    /\ Len(accepted) = 1

\* The i-th failed pushSnapshot of the running sync was followed by another
\* attempt (withRetry went on to its delay).
Reattempted(i) ==
    \/ pushCalls > i
    \/ pc = "sync_delay" /\ i = Len(pushErrors) /\ i = pushCalls

\* C37 -- The retry decision agrees with the error classification: a
\* failed pushSnapshot is re-attempted (while attempts remain) if and only
\* if isRetryableError reports the thrown error as retryable; errors
\* classified non-retryable cause exactly one push invocation.
C37_RetryAgreesWithClassification ==
    /\ \A i \in 1..Len(pushErrors) :
          i < maxRetries => (Reattempted(i) <=> IsRetryableError(pushErrors[i]))
    /\ ( /\ pushErrors # <<>>
         /\ ~IsRetryableError(pushErrors[1]) ) => pushCalls = 1

\* C38 -- Offline start with a populated cache never fails because of the
\* remote: if the cache is non-empty and every remote operation fails
\* (remote.init as well as fetchSnapshot), loadInitial() still returns the
\* cached snapshot without throwing.
C38_OfflineStartNeverFails ==
    ( /\ pc = "done"
      /\ op = "loadInitial"
      /\ cacheAtCall.snapshot # NoSnapshot
      /\ remoteSnapshot = NoSnapshot
      /\ thrown.cause \notin {"local.init failed", "local.load failed",
                              "local.save failed"} ) =>
        /\ thrown = NoThrow
        /\ result.snapshot = cacheAtCall.snapshot

\* The positions of a running sync: each awaits exactly one port call or
\* one delay, or the call is over.
SyncPositions ==
    {"sync_fetch", "sync_save_reset", "sync_push", "sync_delay",
     "sync_save_pushed", "sync_fetch_latest", "sync_save_latest", "done"}

====
